---- MODULE Spec2Model ----
(***************************************************************************)
(* A model of the genetics package: the parent selection strategies        *)
(* (parent_selection.go), the crossover strategies (crossover.go), the     *)
(* mutators (mutation.go), the Species constructors, the chromosome codec  *)
(* and the Evolver with its worst-k selection (genetics.go), the strategy  *)
(* flags (flags.go) and the frequency-gated RandomResetting mutator of the *)
(* package's earlier version.  Two further specifications follow Evolve    *)
(* across generations, as the driving loops of the package's tests call    *)
(* it, and through the gene arrays the chromosomes point to.               *)
(* The package is a library of synchronous functions; each                 *)
(* specification below draws the arguments of a call in its initial state, *)
(* and its actions are the calls, with every value the function takes     *)
(* from the random source chosen by \E.                                    *)
(*                                                                         *)
(* Indexes are the Go indexes (0-based); the Go slice element s[i] is the  *)
(* sequence element s[i + 1].                                              *)
(***************************************************************************)
EXTENDS Integers, Sequences, FiniteSets, TLC

VARIABLES
    call,          \* the function the arguments are drawn for
    pc,            \* "ready": arguments drawn; "done": the call returned; "panic": it panicked
    selector,      \* the NaturalSelection strategy value
    fitness,       \* SelectParents / kMinIndexes argument: []Fitness
    numParents,    \* SelectParents argument numParents; kMinIndexes argument k
    pos,           \* the wheel offset drawn by Int63n / Int31n
    rankedIndexes, \* RankedSelection: the indexes after sort.Slice
    deals,         \* TournamentSelection: the rand.Deal result of each selectOneParent call
    indexes,       \* the returned []int
    crossover,     \* the Crossover strategy value
    species,       \* the Species of the parents: NumGenes, MaxAllele
    a, b,          \* Crossover arguments: the Genes of the two parents
    cuts,          \* the rand.Deal result of the Crossover call, as dealt
    weight,        \* WholeArithmeticRecombination: f = weight / 2^WeightBits drawn by Float64
    x, y,          \* the Genes of the two returned children
    evolver,       \* the Evolver value
    pop,           \* Evolve argument pop: the Genes of each Chromosome
    scores,        \* Evolve argument scores
    parents,       \* Evolve: indexes after rand.Shuffle
    children,      \* Evolve: the Genes of each child after the loop
    minIndexes,    \* Evolve: the kMinIndexes result
    randLog,       \* Evolve: the calls made with rand before it returned, in order
    mutator,       \* the Mutator strategy value
    genes,         \* Mutate argument c: c.Genes, written in place
    draws,         \* Mutate: the values the Int31n calls returned, in order
    swaps,         \* Mutate: the pairs of indexes whose genes were exchanged, in order
    err,           \* the error a call returned: "" is nil
    encoded,       \* the string Chromosome.String returned
    parsed,        \* the Genes of the Chromosome ParseChromosome returned
    flag,          \* a strategy flag: its kind and its field (selection, crossover, mutator)
    input,         \* the argument s of the last Set call, as tokens
    got,           \* what the last Get call returned
    heap,          \* the gene arrays allocated so far; an address is an index into it
    popRefs,       \* Evolve argument pop: the address of the Genes of each Chromosome
    childRefs      \* Evolve: the address of the Genes of each child

selVars == <<selector, fitness, numParents, pos, rankedIndexes, deals, indexes>>

crossVars == <<crossover, species, a, b, cuts, weight, x, y>>

evoVars == <<evolver, pop, scores, parents, children, minIndexes, randLog>>

mutVars == <<mutator, genes, draws, swaps>>

serVars == <<encoded, parsed>>

flagVars == <<flag, input, got>>

memVars == <<heap, popRefs, childRefs>>

vars == <<call, pc, selVars, crossVars, evoVars, mutVars, err, serVars, flagVars, memVars>>

----------------------------------------------------------------------------
(* Bounds of the model. *)

\* longest fitness vector given to a selection strategy
MaxFitnessLen == 3
\* largest numParents given to a wheel strategy
MaxParents == 3
\* longest fitness vector given to kMinIndexes
MaxPopulation == 5

\* most genes of a MultiPointCrossover parent
MaxGenes == 3
\* largest MultiPointCrossover.Points
MaxPoints == 3
\* most genes of a WholeArithmeticRecombination parent
MaxArithGenes == 2
\* largest MaxAllele of a WholeArithmeticRecombination species
MaxArithAllele == 3
\* the Float64 draws are the multiples of 2^-WeightBits in [0, 1)
WeightBits == 2
\* most genes of a DavisOrderCrossover parent
MaxTourGenes == 3
\* largest population given to Evolve
MaxEvolvePopulation == 3
\* most genes of a chromosome given to a Mutator
MaxMutationGenes == 4
\* largest MaxAllele of the species of such a chromosome
MaxMutationAllele == 2
\* largest NumGenes of a species NewPerm is called on
MaxPermGenes == 4
\* largest MaxAllele of such a species
MaxPermAllele == 4
\* largest NumGenes of a species whose chromosomes are serialized
MaxSerialGenes == 3
\* largest MaxAllele of such a species
MaxSerialAllele == 2

\* Fitness is int64; the wheel strategies are exercised with these values
WheelFitness == {-1, 0, 1, 2, 3}
\* TournamentSelection only compares fitness values
OrderFitness == {-1, 0, 2}
\* kMinIndexes is exercised with these values
KMinFitness == {-1, 0, 1, 3}
\* the numParents given to TournamentSelection, whose parents are picked
\* independently of each other
TournamentParents == {1, 2}
\* the scores given to Evolve
EvolveFitness == {0, 1, 2}
\* the Evolver.ReplacementCount values
ReplacementCounts == {1, 2}
\* the ReplacementCount values and population sizes of the Evolve calls whose
\* calls on rand are followed: one pair of children and two
OrderReplacementCounts == {2, 4}
\* the generations: largest allele of the numeric species, the scores a
\* generation can be given, the population sizes
MaxGenerationAllele == 2
GenerationFitness == {1, 2}
GenerationSizes == {2}
\* Evolver.MutationRate in halves: one Float32 draw in two is below it, so
\* that a child may be mutated and may be left alone
MutationRates == {1}

----------------------------------------------------------------------------
(* Helpers: slices, the random source, results that may be a panic. *)

\* all slices of length n over S
SeqsOfLen(S, n) == [1..n -> S]

\* all slices of length lo..hi over S
SeqsBetween(S, lo, hi) == UNION {SeqsOfLen(S, n) : n \in lo..hi}

\* the Go indexes of a slice
Indexes(s) == 0..(Len(s) - 1)

\* a call that returned v
Ok(v) == [ok |-> TRUE, val |-> v]

\* a call that panicked (index out of range, Int63n/Int31n with n <= 0)
Panic == [ok |-> FALSE, val |-> <<>>]

\* Go's integer division truncates toward zero
GoDiv(n, d) == IF n >= 0 THEN n \div d ELSE -((-n) \div d)

\* rand.Int63n(n), rand.Int31n(n): the values it can return; it panics when n <= 0
IntN(n) == 0..(n - 1)

\* rand.Deal(r, n, k): k distinct values of [0, n), in an order that matters
Deal(n, k) == {d \in SeqsOfLen(0..(n - 1), k) : \A i, j \in 1..k : i # j => d[i] # d[j]}

RECURSIVE Sum(_)
Sum(s) == IF s = <<>> THEN 0 ELSE s[1] + Sum(Tail(s))

----------------------------------------------------------------------------
(* StochasticUniversalSampling.SelectParents *)

\* totalFitness / Fitness(numParents)
SusDistance(n, f) == GoDiv(Sum(f), n)

\* the inner loop: for ; pos < accumFitness; pos += distance { append(indexes, n) }
RECURSIVE SusSpin(_, _, _, _, _)
SusSpin(n, p, accum, distance, idx) ==
    IF p < accum
    THEN SusSpin(n, p + distance, accum, distance, Append(idx, n))
    ELSE [pos |-> p, indexes |-> idx]

\* the outer loop: for n := 0; len(indexes) < numParents; n++
RECURSIVE SusWalk(_, _, _, _, _, _, _)
SusWalk(f, np, distance, n, p, accum, idx) ==
    IF Len(idx) >= np THEN Ok(idx)
    ELSE IF n >= Len(f) THEN Panic
    ELSE LET acc == accum + f[n + 1]
             r == SusSpin(n, p, acc, distance, idx)
         IN SusWalk(f, np, distance, n + 1, r.pos, acc, r.indexes)

\* SelectParents once the offset p is drawn
SusSelect(np, f, p) == SusWalk(f, np, SusDistance(np, f), 0, p, 0, <<>>)

----------------------------------------------------------------------------
(* RankedSelection.SelectParents *)

\* the sort with the comparison the other way round: ascending order
SortedAscending(f) ==
    {o \in Deal(Len(f), Len(f)) :
        \A i \in 1..(Len(f) - 1) : f[o[i] + 1] <= f[o[i + 1] + 1]}

\* sort.Slice with less = (fitness[i] > fitness[j]): the slice ends up in
\* descending order; sort.Slice is not stable, so equal elements may end up in
\* either order
SortedDescending(f) ==
    {o \in Deal(Len(f), Len(f)) :
        \A i \in 1..(Len(f) - 1) : f[o[i] + 1] >= f[o[i + 1] + 1]}

\* totalRank / numParents
RankDistance(np, f) == GoDiv((Len(f) * (Len(f) + 1)) \div 2, np)

\* the inner loop: for ; pos < accumRank; pos += distance { append(indexes, rankedIndexes[n]) }
RECURSIVE RankSpin(_, _, _, _, _, _)
RankSpin(ranked, n, p, accum, distance, idx) ==
    IF p < accum
    THEN RankSpin(ranked, n, p + distance, accum, distance, Append(idx, ranked[n + 1]))
    ELSE [pos |-> p, indexes |-> idx]

\* the outer loop: accumRank += len(rankedIndexes) - n
RECURSIVE RankWalk(_, _, _, _, _, _, _)
RankWalk(ranked, np, distance, n, p, accum, idx) ==
    IF Len(idx) >= np THEN Ok(idx)
    ELSE IF n >= Len(ranked) THEN Panic
    ELSE LET acc == accum + (Len(ranked) - n)
             r == RankSpin(ranked, n, p, acc, distance, idx)
         IN RankWalk(ranked, np, distance, n + 1, r.pos, acc, r.indexes)

\* SelectParents once the sort has left `ranked` and the offset p is drawn
RankedSelect(np, f, ranked, p) == RankWalk(ranked, np, RankDistance(np, f), 0, p, 0, <<>>)

----------------------------------------------------------------------------
(* TournamentSelection *)

\* the scan replacing the maximum on > only
RECURSIVE TournamentScanStrict(_, _, _, _)
TournamentScanStrict(f, d, n, maxIndex) ==
    IF n >= Len(d) THEN maxIndex
    ELSE IF f[d[n + 1] + 1] > f[maxIndex + 1]
         THEN TournamentScanStrict(f, d, n + 1, d[n + 1])
         ELSE TournamentScanStrict(f, d, n + 1, maxIndex)

\* the scan of selectOneParent over the dealt candidates d: n = 1 .. Size-1,
\* replacing the maximum on >=
RECURSIVE TournamentScan(_, _, _, _)
TournamentScan(f, d, n, maxIndex) ==
    IF n >= Len(d) THEN maxIndex
    ELSE IF f[d[n + 1] + 1] >= f[maxIndex + 1]
         THEN TournamentScan(f, d, n + 1, d[n + 1])
         ELSE TournamentScan(f, d, n + 1, maxIndex)

\* selectOneParent once the candidates d are dealt
SelectOneParent(f, d) == TournamentScan(f, d, 1, d[1])

\* SelectParents: indexes[n] = selectOneParent(...) for n = 0 .. numParents-1
TournamentSelect(np, f, ds) == Ok([n \in 1..np |-> SelectOneParent(f, ds[n])])

----------------------------------------------------------------------------
(* The selection calls *)

SUS == [name |-> "StochasticUniversalSampling", Size |-> 0]
Ranked == [name |-> "RankedSelection", Size |-> 0]
Tournament(size) == [name |-> "TournamentSelection", Size |-> size]

\* no Mutate call is made
NoMutate ==
    /\ mutator = [name |-> ""]
    /\ genes = <<>>
    /\ draws = <<>>
    /\ swaps = <<>>

\* no Evolve call is made
NoEvolve ==
    /\ evolver = [name |-> ""]
    /\ pop = <<>>
    /\ scores = <<>>
    /\ parents = <<>>
    /\ children = <<>>
    /\ minIndexes = <<>>
    /\ randLog = <<>>

\* no String or ParseChromosome call is made
NoSerialize ==
    /\ encoded = ""
    /\ parsed = <<>>

\* no flag is declared
NoFlag ==
    /\ flag = [kind |-> ""]
    /\ input = <<>>
    /\ got = [name |-> ""]

\* no gene array is followed
NoStorage ==
    /\ heap = <<>>
    /\ popRefs = <<>>
    /\ childRefs = <<>>

\* no Crossover call is made
NoCrossover ==
    /\ crossover = [name |-> "", Points |-> 0]
    /\ species = [NumGenes |-> 0, MaxAllele |-> 0]
    /\ a = <<>> /\ b = <<>>
    /\ cuts = <<>>
    /\ weight = 0
    /\ x = <<>> /\ y = <<>>

InitSelection ==
    /\ call = "SelectParents"
    /\ pc = "ready"
    /\ err = ""
    /\ NoSerialize
    /\ NoFlag
    /\ NoStorage
    /\ NoCrossover
    /\ NoEvolve
    /\ NoMutate
    /\ pos = 0
    /\ rankedIndexes = <<>>
    /\ deals = <<>>
    /\ indexes = <<>>
    /\ \/ /\ selector \in {SUS, Ranked}
          /\ fitness \in SeqsBetween(WheelFitness, 1, MaxFitnessLen)
          /\ numParents \in 1..MaxParents
       \/ /\ fitness \in SeqsBetween(OrderFitness, 1, MaxFitnessLen)
          /\ selector \in {Tournament(size) : size \in 1..Len(fitness)}
          /\ numParents \in TournamentParents

Return(r) ==
    /\ call' = call
    /\ pc' = IF r.ok THEN "done" ELSE "panic"
    /\ indexes' = r.val

CallSUS ==
    /\ pc = "ready"
    /\ selector = SUS
    /\ IF SusDistance(numParents, fitness) <= 0
       THEN Return(Panic) /\ pos' = pos
       ELSE \E p \in IntN(SusDistance(numParents, fitness)) :
               /\ pos' = p
               /\ Return(SusSelect(numParents, fitness, p))
    /\ UNCHANGED <<selector, fitness, numParents, rankedIndexes, deals, crossVars, evoVars, mutVars, err, serVars, flagVars, memVars>>

CallRanked ==
    /\ pc = "ready"
    /\ selector = Ranked
    /\ \E o \in SortedDescending(fitness) :
          /\ rankedIndexes' = o
          /\ IF RankDistance(numParents, fitness) <= 0
             THEN Return(Panic) /\ pos' = pos
             ELSE \E p \in IntN(RankDistance(numParents, fitness)) :
                     /\ pos' = p
                     /\ Return(RankedSelect(numParents, fitness, o, p))
    /\ UNCHANGED <<selector, fitness, numParents, deals, crossVars, evoVars, mutVars, err, serVars, flagVars, memVars>>

CallTournament ==
    /\ pc = "ready"
    /\ selector.name = "TournamentSelection"
    /\ \E ds \in SeqsOfLen(Deal(Len(fitness), selector.Size), numParents) :
          /\ deals' = ds
          /\ Return(TournamentSelect(numParents, fitness, ds))
    /\ UNCHANGED <<selector, fitness, numParents, pos, rankedIndexes, crossVars, evoVars, mutVars, err, serVars, flagVars, memVars>>

NextSelection == CallSUS \/ CallRanked \/ CallTournament

SpecSelection == InitSelection /\ [][NextSelection]_vars

----------------------------------------------------------------------------
(* Species and Chromosome *)

\* Species.New(): NumGenes zero genes
New(s) == [i \in 1..s.NumGenes |-> 0]

\* the Genes a chromosome of species s may hold
Genomes(s) == SeqsOfLen(0..s.MaxAllele, s.NumGenes)

\* whether the genes are a permutation of [0, len)
IsPermutation(g) == \A v \in Indexes(g) : Cardinality({i \in 1..Len(g) : g[i] = v}) = 1

----------------------------------------------------------------------------
(* MultiPointCrossover.Crossover *)

\* sort.Ints: insertion of v into the ascending slice s
RECURSIVE Insert(_, _)
Insert(s, v) ==
    IF s = <<>> THEN <<v>>
    ELSE IF v <= s[1] THEN <<v>> \o s
    ELSE <<s[1]>> \o Insert(Tail(s), v)

RECURSIVE SortInts(_)
SortInts(s) == IF s = <<>> THEN <<>> ELSE Insert(SortInts(Tail(s)), s[1])

\* one turn of the loop with the copies going through the child being read:
\* x.Genes[n:] = y.Genes[n:]; y.Genes[n:] = x.Genes[n:]
SwapTailsNoTemp(xy, n) ==
    [x |-> [i \in 1..Len(xy.x) |-> IF i > n THEN xy.y[i] ELSE xy.x[i]],
     y |-> xy.y]

\* one turn of the loop: temp.Genes[n:] = x.Genes[n:]; x.Genes[n:] = y.Genes[n:];
\* y.Genes[n:] = temp.Genes[n:]
SwapTails(xy, n) ==
    [x |-> [i \in 1..Len(xy.x) |-> IF i > n THEN xy.y[i] ELSE xy.x[i]],
     y |-> [i \in 1..Len(xy.y) |-> IF i > n THEN xy.x[i] ELSE xy.y[i]]]

\* for _, n := range indexes { ... }
RECURSIVE SwapAll(_, _)
SwapAll(xy, sorted) ==
    IF sorted = <<>> THEN xy ELSE SwapAll(SwapTails(xy, sorted[1]), Tail(sorted))

\* Crossover once the cut positions are dealt: x and y start as copies of a and b
MultiPoint(pa, pb, dealt) == Ok(SwapAll([x |-> pa, y |-> pb], SortInts(dealt)))

----------------------------------------------------------------------------
(* WholeArithmeticRecombination.Crossover *)

RECURSIVE Pow2(_)
Pow2(n) == IF n = 0 THEN 1 ELSE 2 * Pow2(n - 1)

\* math.Round of the fraction num / den (den > 0): the nearest integer, halves
\* away from zero
Round(num, den) ==
    IF num >= 0 THEN (2 * num + den) \div (2 * den)
    ELSE -((2 * (-num) + den) \div (2 * den))

\* Gene(math.Round(f*a + (1-f)*b)) with f = w / 2^WeightBits
Interpolate(w, ga, gb) == Round(w * ga + (Pow2(WeightBits) - w) * gb, Pow2(WeightBits))

\* child Y by the interpolation formula with the weights exchanged
MirrorInterpolated(w, ga, gb, gx) == Interpolate(Pow2(WeightBits) - w, ga, gb)

\* child Y with the delta added instead of subtracted
MirrorAdded(w, ga, gb, gx) == gb + (gx - ga)

\* d := x.Genes[i] - a.Genes[i]; y.Genes[i] = b.Genes[i] - d
Mirror(w, ga, gb, gx) == gb - (gx - ga)

\* Crossover once the weight is drawn
WholeArithmetic(pa, pb, w) ==
    LET cx == [i \in 1..Len(pa) |-> Interpolate(w, pa[i], pb[i])]
    IN Ok([x |-> cx, y |-> [i \in 1..Len(pa) |-> Mirror(w, pa[i], pb[i], cx[i])]])

----------------------------------------------------------------------------
(* DavisOrderCrossover.Crossover *)

\* step 1 of davisCrossoverOne: for i := lower; i < upper; i++
RECURSIVE DavisPreserve(_, _, _, _, _)
DavisPreserve(p1, i, upper, child, seen) ==
    IF i >= upper THEN Ok([child |-> child, seen |-> seen])
    ELSE IF i >= Len(p1) \/ p1[i + 1] \notin Indexes(seen) THEN Panic
    ELSE DavisPreserve(p1, i + 1, upper,
                       [child EXCEPT ![i + 1] = p1[i + 1]],
                       [seen EXCEPT ![p1[i + 1] + 1] = TRUE])

\* step 2 of davisCrossoverOne: for read := 0; read < s.NumGenes; read++
RECURSIVE DavisFill(_, _, _, _, _)
DavisFill(p2, read, insert, child, seen) ==
    IF read >= Len(child) THEN Ok(child)
    ELSE IF read >= Len(p2) \/ p2[read + 1] \notin Indexes(seen) THEN Panic
    ELSE IF seen[p2[read + 1] + 1] THEN DavisFill(p2, read + 1, insert, child, seen)
    ELSE DavisFill(p2, read + 1, (insert + 1) % Len(child),
                   [child EXCEPT ![insert + 1] = p2[read + 1]], seen)

\* p2 read from position k on, wrapping
Rotated(p2, k) == [i \in 1..Len(p2) |-> p2[((i - 1 + k) % Len(p2)) + 1]]

\* davisCrossoverOne reading the other parent from `upper` on instead of from 0
DavisCrossoverOneFromUpper(s, p1, p2, lower, upper) ==
    LET r == DavisPreserve(p1, lower, upper, New(s), [i \in 1..s.NumGenes |-> FALSE])
    IN IF ~r.ok THEN Panic
       ELSE DavisFill(Rotated(p2, upper % s.NumGenes), 0, upper % s.NumGenes,
                      r.val.child, r.val.seen)

\* davisCrossoverOne filling from `lower` on instead of from `upper`
DavisCrossoverOneFromLower(s, p1, p2, lower, upper) ==
    LET r == DavisPreserve(p1, lower, upper, New(s), [i \in 1..s.NumGenes |-> FALSE])
    IN IF ~r.ok THEN Panic
       ELSE DavisFill(p2, 0, lower % s.NumGenes, r.val.child, r.val.seen)

\* davisCrossoverOne(p1, p2, lower, upper)
DavisCrossoverOne(s, p1, p2, lower, upper) ==
    LET r == DavisPreserve(p1, lower, upper, New(s), [i \in 1..s.NumGenes |-> FALSE])
    IN IF ~r.ok THEN Panic
       ELSE DavisFill(p2, 0, upper % s.NumGenes, r.val.child, r.val.seen)

\* a Crossover that takes 0 and NumGenes for the cut points, whatever is dealt
DavisOrderWhole(s, pa, pb, dealt) ==
    LET cx == DavisCrossoverOne(s, pa, pb, 0, s.NumGenes)
        cy == DavisCrossoverOne(s, pb, pa, 0, s.NumGenes)
    IN IF cx.ok /\ cy.ok THEN Ok([x |-> cx.val, y |-> cy.val]) ELSE Panic

\* Crossover once the two cut points are dealt: they are put in ascending order
DavisOrder(s, pa, pb, dealt) ==
    LET lower == IF dealt[1] > dealt[2] THEN dealt[2] ELSE dealt[1]
        upper == IF dealt[1] > dealt[2] THEN dealt[1] ELSE dealt[2]
        cx == DavisCrossoverOne(s, pa, pb, lower, upper)
        cy == DavisCrossoverOne(s, pb, pa, lower, upper)
    IN IF cx.ok /\ cy.ok THEN Ok([x |-> cx.val, y |-> cy.val]) ELSE Panic

----------------------------------------------------------------------------
(* The crossover calls *)

MultiPointCrossover(points) == [name |-> "MultiPointCrossover", Points |-> points]
WholeArithmeticRecombination == [name |-> "WholeArithmeticRecombination", Points |-> 0]
DavisOrderCrossover == [name |-> "DavisOrderCrossover", Points |-> 0]

\* no selection call is made
NoSelection ==
    /\ selector = [name |-> "", Size |-> 0]
    /\ fitness = <<>>
    /\ numParents = 0
    /\ pos = 0
    /\ rankedIndexes = <<>>
    /\ deals = <<>>
    /\ indexes = <<>>

Min(m, n) == IF m <= n THEN m ELSE n

\* g is before h in the dictionary order
GenesBefore(g, h) ==
    \E i \in 1..Len(g) : g[i] < h[i] /\ \A j \in 1..(i - 1) : g[j] = h[j]

\* MultiPointCrossover is given binary genomes (the knapsack species), the
\* arithmetic recombination short genomes of wider genes, DavisOrderCrossover
\* genomes over [0, NumGenes), permutations or not, the two parents taken in
\* one of their two orders (the other order exchanges the children)
InitCrossover ==
    /\ call = "Crossover"
    /\ pc = "ready"
    /\ err = ""
    /\ NoSerialize
    /\ NoFlag
    /\ NoStorage
    /\ NoSelection
    /\ NoEvolve
    /\ NoMutate
    /\ cuts = <<>>
    /\ weight = 0
    /\ x = <<>> /\ y = <<>>
    /\ \/ /\ species \in [NumGenes : 1..MaxGenes, MaxAllele : {1}]
          /\ crossover \in {MultiPointCrossover(p) : p \in 1..Min(MaxPoints, species.NumGenes)}
          /\ a \in Genomes(species)
          /\ b \in Genomes(species)
       \/ /\ species \in [NumGenes : 1..MaxArithGenes, MaxAllele : 1..MaxArithAllele]
          /\ crossover = WholeArithmeticRecombination
          /\ a \in Genomes(species)
          /\ b \in Genomes(species)
       \/ /\ species \in {[NumGenes |-> n, MaxAllele |-> n - 1] : n \in 1..MaxTourGenes}
          /\ crossover = DavisOrderCrossover
          /\ a \in Genomes(species)
          /\ b \in Genomes(species)
          /\ a = b \/ GenesBefore(a, b)

ReturnChildren(r) ==
    /\ call' = call
    /\ pc' = IF r.ok THEN "done" ELSE "panic"
    /\ x' = IF r.ok THEN r.val.x ELSE <<>>
    /\ y' = IF r.ok THEN r.val.y ELSE <<>>

CallMultiPoint ==
    /\ pc = "ready"
    /\ crossover.name = "MultiPointCrossover"
    /\ \E dealt \in Deal(species.NumGenes, crossover.Points) :
          /\ cuts' = dealt
          /\ ReturnChildren(MultiPoint(a, b, dealt))
    /\ UNCHANGED <<selVars, crossover, species, a, b, weight, evoVars, mutVars, err, serVars, flagVars, memVars>>

CallWholeArithmetic ==
    /\ pc = "ready"
    /\ crossover = WholeArithmeticRecombination
    /\ \E w \in 0..(Pow2(WeightBits) - 1) :
          /\ weight' = w
          /\ ReturnChildren(WholeArithmetic(a, b, w))
    /\ UNCHANGED <<selVars, crossover, species, a, b, cuts, evoVars, mutVars, err, serVars, flagVars, memVars>>

CallDavisOrder ==
    /\ pc = "ready"
    /\ crossover = DavisOrderCrossover
    /\ \E dealt \in Deal(Len(b) + 1, 2) :
          /\ cuts' = dealt
          /\ ReturnChildren(DavisOrder(species, a, b, dealt))
    /\ UNCHANGED <<selVars, crossover, species, a, b, weight, evoVars, mutVars, err, serVars, flagVars, memVars>>

NextCrossover == CallMultiPoint \/ CallWholeArithmetic \/ CallDavisOrder

SpecCrossover == InitCrossover /\ [][NextCrossover]_vars

----------------------------------------------------------------------------
(* maxTieHeap and kMinIndexes *)

\* maxTieHeap.Less with the comparison the other way round: a min-heap
LessMin(h, i, j) == h[i + 1].fitness < h[j + 1].fitness

\* maxTieHeap.Less(i, j): h[i].fitness > h[j].fitness
Less(h, i, j) == h[i + 1].fitness > h[j + 1].fitness

\* maxTieHeap.Swap(i, j)
Swap(h, i, j) == [h EXCEPT ![i + 1] = h[j + 1], ![j + 1] = h[i + 1]]

\* container/heap down(h, i0, n): sink the element at i under its Less-most
\* child while that child is Less than it; returns the heap and where it ended
RECURSIVE Down(_, _, _)
Down(h, i, n) ==
    LET j1 == 2 * i + 1
        j2 == j1 + 1
        j == IF j2 < n /\ Less(h, j2, j1) THEN j2 ELSE j1
    IN IF j1 >= n THEN [h |-> h, i |-> i]
       ELSE IF ~Less(h, j, i) THEN [h |-> h, i |-> i]
       ELSE Down(Swap(h, i, j), j, n)

\* container/heap up(h, j): raise the element at j while it is Less than its parent
RECURSIVE Up(_, _)
Up(h, j) ==
    LET i == GoDiv(j - 1, 2)
    IN IF i = j \/ ~Less(h, j, i) THEN h
       ELSE Up(Swap(h, i, j), i)

\* heap.Init(h): for i := n/2 - 1; i >= 0; i-- { down(h, i, n) }
RECURSIVE HeapInitFrom(_, _)
HeapInitFrom(h, i) ==
    IF i < 0 THEN h ELSE HeapInitFrom(Down(h, i, Len(h)).h, i - 1)

HeapInit(h) == HeapInitFrom(h, GoDiv(Len(h), 2) - 1)

\* heap.Fix(h, i): if !down(h, i, n) { up(h, i) }
HeapFix(h, i) ==
    LET r == Down(h, i, Len(h))
    IN IF r.i > i THEN r.h ELSE Up(r.h, i)

\* a scan that also replaces the top of the heap when f[i] equals its fitness
RECURSIVE KMinScanEvictsOnEqual(_, _, _)
KMinScanEvictsOnEqual(f, h, i) ==
    IF i >= Len(f) THEN h
    ELSE IF f[i + 1] <= h[1].fitness
         THEN KMinScanEvictsOnEqual(f, HeapFix([h EXCEPT ![1] = [index |-> i, fitness |-> f[i + 1]]], 0), i + 1)
         ELSE KMinScanEvictsOnEqual(f, h, i + 1)

\* the scan of kMinIndexes: for i := k; i < len(f); i++, replacing the top of
\* the heap when f[i] < h[0].fitness
RECURSIVE KMinScan(_, _, _)
KMinScan(f, h, i) ==
    IF i >= Len(f) THEN h
    ELSE IF f[i + 1] < h[1].fitness
         THEN KMinScan(f, HeapFix([h EXCEPT ![1] = [index |-> i, fitness |-> f[i + 1]]], 0), i + 1)
         ELSE KMinScan(f, h, i + 1)

\* a kMinIndexes that returns all of the indexes when k > len(f)
KMinIndexesClamped(f, k) ==
    IF k = 0 /\ Len(f) > 0 THEN Panic
    ELSE LET m == IF k > Len(f) THEN Len(f) ELSE k
             seed == [i \in 1..m |-> [index |-> i - 1, fitness |-> f[i]]]
             h == KMinScan(f, HeapInit(seed), m)
         IN Ok([i \in 1..m |-> h[i].index])

\* kMinIndexes(f, k): f[i] for i < k panics when k > len(f), h[0] when k = 0 < len(f)
KMinIndexes(f, k) ==
    IF k > Len(f) \/ (k = 0 /\ Len(f) > 0) THEN Panic
    ELSE LET seed == [i \in 1..k |-> [index |-> i - 1, fitness |-> f[i]]]
             h == KMinScan(f, HeapInit(seed), k)
         IN Ok([i \in 1..k |-> h[i].index])

----------------------------------------------------------------------------
(* The mutators *)

\* an exchange that loses the gene at i: c.Genes[i] = c.Genes[j] alone
SwapGenesOneWay(g, i, j) == [g EXCEPT ![i + 1] = g[j + 1]]

\* c.Genes[i], c.Genes[j] = c.Genes[j], c.Genes[i]
SwapGenes(g, i, j) == [g EXCEPT ![i + 1] = g[j + 1], ![j + 1] = g[i + 1]]

\* RandomResettingMutation.Mutate once n and v are drawn
RandomResetting(g, n, v) == [g EXCEPT ![n + 1] = v]

\* a draw that may also return MaxAllele
ResetValuesInclusive(s) == IntN(s.MaxAllele + 1)

\* the values of v := r.Int31n(int32(c.Species.MaxAllele))
ResetValues(s) == IntN(s.MaxAllele)

\* RandomResettingMutation.Mutate: n = Int31n(len(c.Genes)), v = Int31n(MaxAllele)
RandomResettingOutcomes(s, g) ==
    IF Len(g) <= 0 \/ s.MaxAllele <= 0 THEN {Panic}
    ELSE {Ok(RandomResetting(g, n, v)) : n \in IntN(Len(g)), v \in ResetValues(s)}

\* the segment draws of Swap, Scramble and Inversion over len genes:
\* i0 = Int31n(len - 1), d = Int31n(len - i0 - 1) + 1
SegmentDraws(len) ==
    {<<i0, d>> \in (0..(len - 2)) \X (1..(len - 1)) : d <= len - i0 - 1}

\* an offset that is not moved off 0
SwapMutateNoOffset(g, i0, d) == SwapGenes(g, i0, i0 + d - 1)

\* SwapMutation.Mutate once i0 and d are drawn: i1 = i0 + d
SwapMutate(g, i0, d) == SwapGenes(g, i0, i0 + d)

SwapOutcomes(s, g) ==
    IF Len(g) - 1 <= 0 THEN {Panic}
    ELSE {Ok(SwapMutate(g, sd[1], sd[2])) : sd \in SegmentDraws(Len(g))}

\* a partner counted back from the position visited
ScramblePartnerBefore(l, i, d2) == IF i - d2 >= l THEN i - d2 ELSE i

\* the index l+d2 that the scramble loop exchanges with index i
ScramblePartner(l, i, d2) == l + d2

\* the loop of ScrambleMutation.Mutate: for i := l; i < u; i++ with
\* d2 = Int31n(d + 1) drawn in every turn, swapping c.Genes[i] and c.Genes[l+d2]
RECURSIVE ScrambleFrom(_, _, _, _)
ScrambleFrom(g, l, d, i) ==
    IF i >= l + d THEN {g}
    ELSE UNION {ScrambleFrom(SwapGenes(g, i, ScramblePartner(l, i, d2)), l, d, i + 1) :
                   d2 \in IntN(d + 1)}

\* ScrambleMutation.Mutate: l = Int31n(NumGenes - 1), d = Int31n(NumGenes - l - 1) + 1
ScrambleOutcomes(s, g) ==
    IF s.NumGenes - 1 <= 0 THEN {Panic}
    ELSE {Ok(r) : r \in UNION {ScrambleFrom(g, sd[1], sd[2], sd[1]) :
                                  sd \in SegmentDraws(s.NumGenes)}}

\* a loop that moves its lower end only
RECURSIVE InvertBetweenLowerOnly(_, _, _)
InvertBetweenLowerOnly(g, l, u) ==
    IF l >= u THEN g ELSE InvertBetweenLowerOnly(SwapGenes(g, l, u), l + 1, u)

\* the loop of InversionMutation.Mutate: for ; l < u; l, u = l+1, u-1
RECURSIVE InvertBetween(_, _, _)
InvertBetween(g, l, u) ==
    IF l >= u THEN g ELSE InvertBetween(SwapGenes(g, l, u), l + 1, u - 1)

\* InversionMutation.Mutate once l and d are drawn: u = d + l
InversionMutate(g, l, d) == InvertBetween(g, l, d + l)

InversionOutcomes(s, g) ==
    IF s.NumGenes - 1 <= 0 THEN {Panic}
    ELSE {Ok(InversionMutate(g, sd[1], sd[2])) : sd \in SegmentDraws(s.NumGenes)}

RandomResettingMutation == [name |-> "RandomResettingMutation"]
SwapMutation == [name |-> "SwapMutation"]
ScrambleMutation == [name |-> "ScrambleMutation"]
InversionMutation == [name |-> "InversionMutation"]

\* Mutator.Mutate(rand, &c): what it can leave in c.Genes
MutateOutcomes(m, s, g) ==
    CASE m = RandomResettingMutation -> RandomResettingOutcomes(s, g)
      [] m = SwapMutation -> SwapOutcomes(s, g)
      [] m = ScrambleMutation -> ScrambleOutcomes(s, g)
      [] m = InversionMutation -> InversionOutcomes(s, g)

----------------------------------------------------------------------------
(* Evolver.Evolve *)

\* Selector.SelectParents(rand, numParents, scores): what it can return
SelectOutcomes(sel, np, f) ==
    CASE sel = SUS ->
           IF SusDistance(np, f) <= 0 THEN {Panic}
           ELSE {SusSelect(np, f, p) : p \in IntN(SusDistance(np, f))}
      [] sel = Ranked ->
           IF RankDistance(np, f) <= 0 THEN {Panic}
           ELSE {RankedSelect(np, f, o, p) :
                    o \in SortedDescending(f), p \in IntN(RankDistance(np, f))}
      [] sel.name = "TournamentSelection" ->
           IF sel.Size \notin 1..Len(f) THEN {Panic}
           ELSE {TournamentSelect(np, f, ds) : ds \in SeqsOfLen(Deal(Len(f), sel.Size), np)}

\* rand.Shuffle(len(indexes), swap): the orders it can leave the indexes in
Shuffles(idx) == {[i \in 1..Len(idx) |-> idx[o[i] + 1]] : o \in Deal(Len(idx), Len(idx))}

\* Crossover.Crossover(rand, a, b): what it can return
CrossoverOutcomes(c, s, pa, pb) ==
    CASE c.name = "MultiPointCrossover" ->
           IF c.Points \notin 0..s.NumGenes THEN {Panic}
           ELSE {MultiPoint(pa, pb, dealt) : dealt \in Deal(s.NumGenes, c.Points)}
      [] c = WholeArithmeticRecombination ->
           {WholeArithmetic(pa, pb, w) : w \in 0..(Pow2(WeightBits) - 1)}
      [] c = DavisOrderCrossover ->
           {DavisOrder(s, pa, pb, dealt) : dealt \in Deal(Len(pb) + 1, 2)}

\* a step of Evolve with the calls it has made with rand, in their order
Logged(r, log) == [ok |-> r.ok, val |-> r.val, log |-> log]

\* if rand.Float32() < e.MutationRate { e.Mutator.Mutate(rand, &child) }, with
\* MutationRate = rate / 2: the draw is never below 0 and always below 1
MaybeMutate(ev, s, g) ==
    (IF ev.MutationRate > 0
     THEN {Logged(r, <<"Float32", "Mutate">>) : r \in MutateOutcomes(ev.Mutator, s, g)}
     ELSE {})
        \cup (IF ev.MutationRate < 2 THEN {Logged(Ok(g), <<"Float32">>)} ELSE {})

\* a turn of the loop that draws for the mutation of its children before it
\* crosses their parents
PairCallsCrossoverLast(mx, my) ==
    IF mx.ok THEN mx.log \o my.log \o <<"Crossover">> ELSE mx.log \o <<"Crossover">>

\* the calls of one turn of the loop of Evolve: Crossover, the draw and the
\* mutation of child i, then the draw and the mutation of child i + 1, which
\* is not reached when the mutation of child i panics
PairCalls(mx, my) ==
    IF mx.ok THEN <<"Crossover">> \o mx.log \o my.log ELSE <<"Crossover">> \o mx.log

\* one turn of the loop of Evolve: the children i and i + 1
EvolvePair(ev, s, population, idx, i) ==
    IF i + 1 >= Len(idx) THEN {Logged(Panic, <<>>)}
    ELSE LET crossed == CrossoverOutcomes(ev.Crossover, s,
                                          population[idx[i + 1] + 1],
                                          population[idx[i + 2] + 1])
         IN UNION {IF ~r.ok \/ i + 1 >= ev.ReplacementCount
                   THEN {Logged(Panic, <<"Crossover">>)}
                   ELSE {Logged(IF mx.ok /\ my.ok THEN Ok(<<mx.val, my.val>>) ELSE Panic,
                                PairCalls(mx, my)) :
                            mx \in MaybeMutate(ev, s, r.val.x),
                            my \in MaybeMutate(ev, s, r.val.y)} :
                   r \in crossed}

\* the loop of Evolve: for i := 0; i < e.ReplacementCount; i += 2
RECURSIVE EvolveChildren(_, _, _, _, _, _, _)
EvolveChildren(ev, s, population, idx, i, born, log) ==
    IF i >= ev.ReplacementCount THEN {Logged(Ok(born), log)}
    ELSE UNION {IF ~r.ok THEN {Logged(Panic, log \o r.log)}
                ELSE EvolveChildren(ev, s, population, idx, i + 2,
                                    born \o r.val, log \o r.log) :
                r \in EvolvePair(ev, s, population, idx, i)}

\* a replacement loop that writes child number c to slot number c
ReplaceFirstSlots(population, born, slots, child) ==
    [i \in 1..Len(population) |-> IF i <= Len(born) THEN born[i] ELSE population[i]]

\* for child, parent := range minIndexes { pop[parent] = children[child] }
RECURSIVE Replace(_, _, _, _)
Replace(population, born, slots, child) ==
    IF child >= Len(slots) THEN population
    ELSE Replace([population EXCEPT ![slots[child + 1] + 1] = born[child + 1]],
                 born, slots, child + 1)

\* Evolve(rand, pop, scores): what it can do; it panics before it writes to pop
EvolveOutcomes(ev, s, population, f) ==
    LET selected == SelectOutcomes(ev.Selector, ev.ReplacementCount, f)
        shuffled == UNION {Shuffles(sel.val) : sel \in {r \in selected : r.ok}}
        slots == KMinIndexes(f, ev.ReplacementCount)
    IN {Logged(r, <<"SelectParents">>) : r \in {r \in selected : ~r.ok}}
          \cup UNION {{IF ~born.ok \/ ~slots.ok THEN Logged(Panic, born.log)
                       ELSE Logged(Ok([parents |-> idx,
                                       children |-> born.val,
                                       minIndexes |-> slots.val,
                                       pop |-> Replace(population, born.val, slots.val, 0)]),
                                   born.log) :
                       born \in EvolveChildren(ev, s, population, idx, 0, <<>>,
                                               <<"SelectParents", "Shuffle">>)} :
                      idx \in shuffled}

----------------------------------------------------------------------------
(* The kMinIndexes call *)

InitWorstK ==
    /\ call = "kMinIndexes"
    /\ pc = "ready"
    /\ err = ""
    /\ NoSerialize
    /\ NoFlag
    /\ NoStorage
    /\ NoCrossover
    /\ NoEvolve
    /\ NoMutate
    /\ selector = [name |-> "", Size |-> 0]
    /\ pos = 0
    /\ rankedIndexes = <<>>
    /\ deals = <<>>
    /\ indexes = <<>>
    /\ fitness \in SeqsBetween(KMinFitness, 1, MaxPopulation)
    /\ numParents \in 1..(Len(fitness) + 1)

CallKMinIndexes ==
    /\ call = "kMinIndexes"
    /\ pc = "ready"
    /\ Return(KMinIndexes(fitness, numParents))
    /\ UNCHANGED <<selector, fitness, numParents, pos, rankedIndexes, deals, crossVars, evoVars, mutVars, err, serVars, flagVars, memVars>>

NextWorstK == CallKMinIndexes

SpecWorstK == InitWorstK /\ [][NextWorstK]_vars

----------------------------------------------------------------------------
(* The Evolve call *)

\* the knapsack species of the tests, shortened
BinarySpecies == [NumGenes |-> 2, MaxAllele |-> 1]
\* the travelling salesman species of the tests, shortened
PermSpecies == [NumGenes |-> 3, MaxAllele |-> 2]

\* the populations of n different chromosomes drawn from G, up to the order
\* of the chromosomes (the scores are drawn independently of them)
Populations(G, n) ==
    {p \in SeqsOfLen(G, n) : \A i \in 1..(n - 1) : GenesBefore(p[i], p[i + 1])}

\* the tours that visit the cities in their order, from each city
Tours(s) ==
    {[i \in 1..s.NumGenes |-> (i - 1 + r) % s.NumGenes] : r \in 0..(s.NumGenes - 1)}

Evolver(k, rate, sel, cross, mut) ==
    [ReplacementCount |-> k, MutationRate |-> rate,
     Selector |-> sel, Crossover |-> cross, Mutator |-> mut]

\* the numeric strategies evolve binary genomes, the permutation strategies
\* permutations, as in the tests of the package
InitEvolve ==
    /\ call = "Evolve"
    /\ pc = "ready"
    /\ err = ""
    /\ NoSerialize
    /\ NoFlag
    /\ NoStorage
    /\ NoSelection
    /\ NoMutate
    /\ crossover = [name |-> "", Points |-> 0]
    /\ a = <<>> /\ b = <<>>
    /\ cuts = <<>>
    /\ weight = 0
    /\ x = <<>> /\ y = <<>>
    /\ parents = <<>>
    /\ children = <<>>
    /\ minIndexes = <<>>
    /\ randLog = <<>>
    /\ \E n \in 1..MaxEvolvePopulation :
          /\ scores \in SeqsOfLen(EvolveFitness, n)
          /\ \/ /\ species = BinarySpecies
                /\ pop \in Populations(Genomes(species), n)
                /\ evolver \in {Evolver(k, rate, sc[1], sc[2], sc[3]) :
                                   k \in ReplacementCounts, rate \in MutationRates,
                                   sc \in {<<SUS, MultiPointCrossover(1),
                                             RandomResettingMutation>>,
                                           <<Ranked, WholeArithmeticRecombination,
                                             SwapMutation>>}}
             \/ /\ species = PermSpecies
                /\ pop \in Populations(Tours(species), n)
                /\ evolver \in {Evolver(k, rate, Tournament(2), DavisOrderCrossover,
                                           ScrambleMutation) :
                                   k \in ReplacementCounts, rate \in MutationRates}

CallEvolve ==
    /\ call = "Evolve"
    /\ pc = "ready"
    /\ \E r \in EvolveOutcomes(evolver, species, pop, scores) :
          /\ pc' = IF r.ok THEN "done" ELSE "panic"
          /\ parents' = IF r.ok THEN r.val.parents ELSE <<>>
          /\ children' = IF r.ok THEN r.val.children ELSE <<>>
          /\ minIndexes' = IF r.ok THEN r.val.minIndexes ELSE <<>>
          /\ pop' = IF r.ok THEN r.val.pop ELSE pop
          /\ randLog' = r.log
    /\ UNCHANGED <<call, selVars, crossVars, evolver, scores, mutVars, err, serVars, flagVars, memVars>>

NextEvolve == CallEvolve

SpecEvolve == InitEvolve /\ [][NextEvolve]_vars

\* Evolve calls that make up to two turns of the loop, on binary genomes
InitEvolveOrder ==
    /\ call = "Evolve"
    /\ pc = "ready"
    /\ err = ""
    /\ NoSerialize
    /\ NoFlag
    /\ NoStorage
    /\ NoSelection
    /\ NoMutate
    /\ crossover = [name |-> "", Points |-> 0]
    /\ a = <<>> /\ b = <<>>
    /\ cuts = <<>>
    /\ weight = 0
    /\ x = <<>> /\ y = <<>>
    /\ parents = <<>>
    /\ children = <<>>
    /\ minIndexes = <<>>
    /\ randLog = <<>>
    /\ species = BinarySpecies
    /\ \E n \in OrderReplacementCounts :
          /\ scores \in SeqsOfLen(EvolveFitness, n)
          /\ pop \in Populations(Genomes(species), n)
    /\ evolver \in {Evolver(k, rate, SUS, MultiPointCrossover(1), InversionMutation) :
                       k \in OrderReplacementCounts, rate \in MutationRates}

SpecEvolveOrder == InitEvolveOrder /\ [][NextEvolve]_vars

----------------------------------------------------------------------------
(* The generations: the loop that scores the population and calls Evolve *)

\* the species of the numeric chromosomes
NumericSpecies == [NumGenes |-> 2, MaxAllele |-> MaxGenerationAllele]

\* generation 0 and the evolver: numeric chromosomes for MultiPointCrossover
\* and WholeArithmeticRecombination, permutations for DavisOrderCrossover
InitGenerations ==
    /\ call = "Evolve"
    /\ pc = "ready"
    /\ err = ""
    /\ NoSerialize
    /\ NoFlag
    /\ NoStorage
    /\ NoSelection
    /\ NoMutate
    /\ crossover = [name |-> "", Points |-> 0]
    /\ a = <<>> /\ b = <<>>
    /\ cuts = <<>>
    /\ weight = 0
    /\ x = <<>> /\ y = <<>>
    /\ parents = <<>>
    /\ children = <<>>
    /\ minIndexes = <<>>
    /\ randLog = <<>>
    /\ \E n \in GenerationSizes :
          /\ scores \in SeqsOfLen(GenerationFitness, n)
          /\ \/ /\ species = NumericSpecies
                /\ pop \in SeqsOfLen(Genomes(species), n)
                /\ evolver \in {Evolver(2, rate, SUS, cross, mut) :
                                   rate \in MutationRates,
                                   cross \in {MultiPointCrossover(1),
                                              WholeArithmeticRecombination},
                                   mut \in {RandomResettingMutation, SwapMutation,
                                            ScrambleMutation, InversionMutation}}
             \/ /\ species = PermSpecies
                /\ pop \in SeqsOfLen({g \in Genomes(species) : IsPermutation(g)}, n)
                /\ evolver \in {Evolver(2, rate, sel, DavisOrderCrossover, mut) :
                                   rate \in MutationRates,
                                   sel \in {SUS, Ranked, Tournament(2)},
                                   mut \in {RandomResettingMutation, SwapMutation,
                                            ScrambleMutation, InversionMutation}}

\* the next turn of the loop: the population Evolve left is scored again
ScoreGeneration ==
    /\ call = "Evolve"
    /\ pc = "done"
    /\ pc' = "ready"
    /\ scores' \in SeqsOfLen(GenerationFitness, Len(pop))
    /\ parents' = <<>>
    /\ children' = <<>>
    /\ minIndexes' = <<>>
    /\ randLog' = <<>>
    /\ UNCHANGED <<call, selVars, crossVars, evolver, pop, mutVars, err, serVars, flagVars, memVars>>

NextGenerations == CallEvolve \/ ScoreGeneration

SpecGenerations == InitGenerations /\ [][NextGenerations]_vars

----------------------------------------------------------------------------
(* Evolve over gene arrays: which array each Chromosome's Genes points to *)

\* the population sizes of the Evolve calls whose gene arrays are followed
StorageSizes == {2, 3}

\* a step of Evolve with the gene arrays it leaves
Stored(ok, h, refs, log) == [ok |-> ok, heap |-> h, refs |-> refs, log |-> log]

\* s.New(): a gene array of its own, at the next address
Alloc(h, g) == Append(h, g)

\* a Crossover that makes child x in the array of parent a
CrossoverStoreInPlace(h, ra, rb, r) ==
    [heap |-> Alloc([h EXCEPT ![ra] = r.x], r.y), x |-> ra, y |-> Len(h) + 1]

\* x = s.New(); y = s.New() and the genes Crossover writes into them; the
\* parents a and b are read only (temp of MultiPointCrossover is dropped)
CrossoverStore(h, ra, rb, r) ==
    [heap |-> Alloc(Alloc(h, r.x), r.y), x |-> Len(h) + 1, y |-> Len(h) + 2]

\* if rand.Float32() < e.MutationRate { e.Mutator.Mutate(rand, &children[i]) }:
\* Mutate writes into the array of the child
MaybeMutateStore(ev, s, h, ref) ==
    {[ok |-> m.ok, heap |-> IF m.ok THEN [h EXCEPT ![ref] = m.val] ELSE h, log |-> m.log] :
        m \in MaybeMutate(ev, s, h[ref])}

\* one turn of the loop of Evolve over the gene arrays
EvolvePairStore(ev, s, h, refs, idx, i) ==
    IF i + 1 >= Len(idx) THEN {Stored(FALSE, h, <<>>, <<>>)}
    ELSE LET ra == refs[idx[i + 1] + 1]
             rb == refs[idx[i + 2] + 1]
         IN UNION {IF ~r.ok THEN {Stored(FALSE, h, <<>>, <<"Crossover">>)}
                   ELSE LET st == CrossoverStore(h, ra, rb, r.val)
                        IN IF i + 1 >= ev.ReplacementCount
                           THEN {Stored(FALSE, st.heap, <<>>, <<"Crossover">>)}
                           ELSE UNION {IF ~mx.ok
                                       THEN {Stored(FALSE, mx.heap, <<>>, <<"Crossover">> \o mx.log)}
                                       ELSE {Stored(my.ok, my.heap, <<st.x, st.y>>,
                                                    <<"Crossover">> \o mx.log \o my.log) :
                                                my \in MaybeMutateStore(ev, s, mx.heap, st.y)} :
                                       mx \in MaybeMutateStore(ev, s, st.heap, st.x)} :
                   r \in CrossoverOutcomes(ev.Crossover, s, h[ra], h[rb])}

\* the loop of Evolve over the gene arrays
RECURSIVE EvolveChildrenStore(_, _, _, _, _, _, _, _)
EvolveChildrenStore(ev, s, h, refs, idx, i, born, log) ==
    IF i >= ev.ReplacementCount THEN {Stored(TRUE, h, born, log)}
    ELSE UNION {IF ~r.ok THEN {Stored(FALSE, r.heap, <<>>, log \o r.log)}
                ELSE EvolveChildrenStore(ev, s, r.heap, refs, idx, i + 2,
                                         born \o r.refs, log \o r.log) :
                r \in EvolvePairStore(ev, s, h, refs, idx, i)}

\* Evolve over the gene arrays: what it can do
EvolveStoreOutcomes(ev, s, h, refs, f) ==
    LET selected == SelectOutcomes(ev.Selector, ev.ReplacementCount, f)
        shuffled == UNION {Shuffles(sel.val) : sel \in {r \in selected : r.ok}}
        slots == KMinIndexes(f, ev.ReplacementCount)
    IN {[ok |-> FALSE, heap |-> h, log |-> <<"SelectParents">>] : r \in {r \in selected : ~r.ok}}
          \cup UNION {{IF ~born.ok \/ ~slots.ok
                       THEN [ok |-> FALSE, heap |-> born.heap, log |-> born.log]
                       ELSE [ok |-> TRUE, heap |-> born.heap, log |-> born.log,
                             parents |-> idx,
                             children |-> born.refs,
                             minIndexes |-> slots.val,
                             pop |-> Replace(refs, born.refs, slots.val, 0)] :
                       born \in EvolveChildrenStore(ev, s, h, refs, idx, 0, <<>>,
                                                    <<"SelectParents", "Shuffle">>)} :
                      idx \in shuffled}

\* the Genes of the chromosomes at the addresses refs
Deref(h, refs) == [i \in 1..Len(refs) |-> h[refs[i]]]

\* a population whose chromosomes each have a gene array of their own, as
\* NewRand and NewPerm make them
InitStorage ==
    /\ call = "Evolve"
    /\ pc = "ready"
    /\ err = ""
    /\ NoSerialize
    /\ NoFlag
    /\ NoSelection
    /\ NoMutate
    /\ crossover = [name |-> "", Points |-> 0]
    /\ a = <<>> /\ b = <<>>
    /\ cuts = <<>>
    /\ weight = 0
    /\ x = <<>> /\ y = <<>>
    /\ parents = <<>>
    /\ children = <<>>
    /\ minIndexes = <<>>
    /\ randLog = <<>>
    /\ childRefs = <<>>
    /\ \E n \in StorageSizes :
          /\ scores \in SeqsOfLen(EvolveFitness, n)
          /\ popRefs = [i \in 1..n |-> i]
          /\ \/ /\ species = BinarySpecies
                /\ heap \in Populations(Genomes(species), n)
                /\ evolver \in {Evolver(2, rate, Tournament(1), cross, mut) :
                                   rate \in MutationRates,
                                   cross \in {MultiPointCrossover(1),
                                              WholeArithmeticRecombination},
                                   mut \in {RandomResettingMutation, InversionMutation}}
             \/ /\ species = PermSpecies
                /\ heap \in Populations(Tours(species), n)
                /\ evolver \in {Evolver(2, rate, Tournament(1), DavisOrderCrossover,
                                        SwapMutation) :
                                   rate \in MutationRates}
    /\ pop = Deref(heap, popRefs)

\* Evolve(rand, pop, scores) over the gene arrays
CallEvolveStore ==
    /\ call = "Evolve"
    /\ pc = "ready"
    /\ \E r \in EvolveStoreOutcomes(evolver, species, heap, popRefs, scores) :
          /\ pc' = IF r.ok THEN "done" ELSE "panic"
          /\ heap' = r.heap
          /\ parents' = IF r.ok THEN r.parents ELSE <<>>
          /\ childRefs' = IF r.ok THEN r.children ELSE <<>>
          /\ children' = IF r.ok THEN Deref(r.heap, r.children) ELSE <<>>
          /\ minIndexes' = IF r.ok THEN r.minIndexes ELSE <<>>
          /\ popRefs' = IF r.ok THEN r.pop ELSE popRefs
          /\ pop' = Deref(r.heap, IF r.ok THEN r.pop ELSE popRefs)
          /\ randLog' = r.log
    /\ UNCHANGED <<call, selVars, crossVars, evolver, scores, mutVars, err, serVars, flagVars>>

NextStorage == CallEvolveStore

SpecStorage == InitStorage /\ [][NextStorage]_vars

----------------------------------------------------------------------------
(* The Mutate call *)

\* the exchanges of the scramble loop, turn t visiting index l + t - 1
ScrambleSwaps(l, d2s) ==
    [t \in 1..Len(d2s) |-> <<l + t - 1, ScramblePartner(l, l + t - 1, d2s[t])>>]

\* the exchanges of the inversion loop: (l, u), (l+1, u-1), ... while l < u
RECURSIVE InversionSwaps(_, _)
InversionSwaps(l, u) ==
    IF l >= u THEN <<>> ELSE <<<<l, u>>>> \o InversionSwaps(l + 1, u - 1)

\* the genes after the exchanges sw[t], sw[t+1], ... made in this order
RECURSIVE ApplySwaps(_, _, _)
ApplySwaps(g, sw, t) ==
    IF t > Len(sw) THEN g
    ELSE ApplySwaps(SwapGenes(g, sw[t][1], sw[t][2]), sw, t + 1)

\* the chromosome is one the species makes: len(c.Genes) = NumGenes, every
\* gene in [0, MaxAllele]
InitMutation ==
    /\ call = "Mutate"
    /\ pc = "ready"
    /\ err = ""
    /\ NoSerialize
    /\ NoFlag
    /\ NoStorage
    /\ NoSelection
    /\ NoEvolve
    /\ crossover = [name |-> "", Points |-> 0]
    /\ a = <<>> /\ b = <<>>
    /\ cuts = <<>>
    /\ weight = 0
    /\ x = <<>> /\ y = <<>>
    /\ species \in [NumGenes : 1..MaxMutationGenes, MaxAllele : 0..MaxMutationAllele]
    /\ genes \in Genomes(species)
    /\ mutator \in {RandomResettingMutation, SwapMutation, ScrambleMutation,
                    InversionMutation}
    /\ draws = <<>>
    /\ swaps = <<>>

\* the call panics in an Int31n after the draws ds
MutatePanics(ds) ==
    /\ pc' = "panic"
    /\ draws' = ds
    /\ UNCHANGED <<genes, swaps>>

CallRandomResetting ==
    /\ call = "Mutate" /\ pc = "ready"
    /\ mutator = RandomResettingMutation
    /\ IF Len(genes) <= 0 THEN MutatePanics(<<>>)
       ELSE \E n \in IntN(Len(genes)) :
               IF species.MaxAllele <= 0 THEN MutatePanics(<<n>>)
               ELSE \E v \in ResetValues(species) :
                       /\ pc' = "done"
                       /\ draws' = <<n, v>>
                       /\ genes' = RandomResetting(genes, n, v)
                       /\ swaps' = <<>>
    /\ UNCHANGED <<call, selVars, crossVars, evoVars, mutator, err, serVars, flagVars, memVars>>

CallSwapMutation ==
    /\ call = "Mutate" /\ pc = "ready"
    /\ mutator = SwapMutation
    /\ IF Len(genes) - 1 <= 0 THEN MutatePanics(<<>>)
       ELSE \E i0 \in IntN(Len(genes) - 1) :
               \E r \in IntN(Len(genes) - i0 - 1) :
                  /\ pc' = "done"
                  /\ draws' = <<i0, r>>
                  /\ genes' = SwapMutate(genes, i0, r + 1)
                  /\ swaps' = <<<<i0, i0 + (r + 1)>>>>
    /\ UNCHANGED <<call, selVars, crossVars, evoVars, mutator, err, serVars, flagVars, memVars>>

CallScrambleMutation ==
    /\ call = "Mutate" /\ pc = "ready"
    /\ mutator = ScrambleMutation
    /\ IF species.NumGenes - 1 <= 0 THEN MutatePanics(<<>>)
       ELSE \E l \in IntN(species.NumGenes - 1) :
               \E r \in IntN(species.NumGenes - l - 1) :
                  \E d2s \in SeqsOfLen(IntN((r + 1) + 1), r + 1) :
                     /\ pc' = "done"
                     /\ draws' = <<l, r>> \o d2s
                     /\ swaps' = ScrambleSwaps(l, d2s)
                     /\ genes' = ApplySwaps(genes, ScrambleSwaps(l, d2s), 1)
    /\ UNCHANGED <<call, selVars, crossVars, evoVars, mutator, err, serVars, flagVars, memVars>>

CallInversionMutation ==
    /\ call = "Mutate" /\ pc = "ready"
    /\ mutator = InversionMutation
    /\ IF species.NumGenes - 1 <= 0 THEN MutatePanics(<<>>)
       ELSE \E l \in IntN(species.NumGenes - 1) :
               \E r \in IntN(species.NumGenes - l - 1) :
                  /\ pc' = "done"
                  /\ draws' = <<l, r>>
                  /\ genes' = InversionMutate(genes, l, r + 1)
                  /\ swaps' = InversionSwaps(l, (r + 1) + l)
    /\ UNCHANGED <<call, selVars, crossVars, evoVars, mutator, err, serVars, flagVars, memVars>>

NextMutation ==
    CallRandomResetting \/ CallSwapMutation \/ CallScrambleMutation \/ CallInversionMutation

SpecMutation == InitMutation /\ [][NextMutation]_vars

----------------------------------------------------------------------------
(* RandomResetting.Mutate of the frequency-gated mutators *)

\* frequencies and Float32 draws are counted in steps of 1 / FreqSteps
FreqSteps == 4
MaxFreqGenes == 2
MaxBitsPerGene == 2

\* rand.Float32(): a value of [0, 1)
Float32Draws == 0..(FreqSteps - 1)

\* RandomResetting{Rand, Freq}
FreqRandomResetting(freq) == [name |-> "RandomResetting", Freq |-> freq]

\* a test that lets the draws above the frequency through
FreqSkipsBelow(f, freq) == f < freq

\* if f > r.Freq { return }
FreqSkips(f, freq) == f > freq

\* 1 << c.Species.BitsPerGene
AlleleCount(s) == Pow2(s.BitsPerGene)

InitFreqMutation ==
    /\ call = "RandomResetting.Mutate"
    /\ pc = "ready"
    /\ err = ""
    /\ NoSerialize
    /\ NoFlag
    /\ NoStorage
    /\ NoSelection
    /\ NoEvolve
    /\ crossover = [name |-> "", Points |-> 0]
    /\ a = <<>> /\ b = <<>>
    /\ cuts = <<>>
    /\ weight = 0
    /\ x = <<>> /\ y = <<>>
    /\ species \in [NumGenes : 0..MaxFreqGenes, BitsPerGene : 0..MaxBitsPerGene]
    /\ genes \in SeqsOfLen(IntN(AlleleCount(species)), species.NumGenes)
    /\ mutator \in {FreqRandomResetting(freq) : freq \in 0..FreqSteps}
    /\ draws = <<>>
    /\ swaps = <<>>

\* func (r *RandomResetting) Mutate(c *Chromosome)
CallFreqRandomResetting ==
    /\ call = "RandomResetting.Mutate" /\ pc = "ready"
    /\ \E f \in Float32Draws :
          IF FreqSkips(f, mutator.Freq)
          THEN /\ pc' = "done"
               /\ draws' = <<f>>
               /\ UNCHANGED genes
          ELSE IF Len(genes) <= 0
               THEN /\ pc' = "panic"
                    /\ draws' = <<f>>
                    /\ UNCHANGED genes
               ELSE \E n \in IntN(Len(genes)), v \in IntN(AlleleCount(species)) :
                       /\ pc' = "done"
                       /\ draws' = <<f, n, v>>
                       /\ genes' = [genes EXCEPT ![n + 1] = v]
    /\ UNCHANGED <<call, selVars, crossVars, evoVars, mutator, swaps, err, serVars, flagVars, memVars>>

NextFreqMutation == CallFreqRandomResetting

SpecFreqMutation == InitFreqMutation /\ [][NextFreqMutation]_vars

----------------------------------------------------------------------------
(* The NewPerm call *)

\* a test that also rejects MaxAllele = NumGenes - 1
NewPermTooNarrowOffByOne(s) == s.MaxAllele < s.NumGenes

\* if int(s.MaxAllele) < s.NumGenes-1
NewPermTooNarrow(s) == s.MaxAllele < s.NumGenes - 1

\* rng.Perm(n): a permutation of [0, n)
Perm(n) == Deal(n, n)

\* for i, v := range r { child.Genes[i] = Gene(v) } on child := s.New()
RECURSIVE NewPermAssign(_, _, _)
NewPermAssign(child, r, i) ==
    IF i >= Len(r) THEN child
    ELSE NewPermAssign([child EXCEPT ![i + 1] = r[i + 1]], r, i + 1)

InitNewPerm ==
    /\ call = "NewPerm"
    /\ pc = "ready"
    /\ err = ""
    /\ NoSerialize
    /\ NoFlag
    /\ NoStorage
    /\ NoSelection
    /\ NoEvolve
    /\ crossover = [name |-> "", Points |-> 0]
    /\ a = <<>> /\ b = <<>>
    /\ cuts = <<>>
    /\ weight = 0
    /\ x = <<>> /\ y = <<>>
    /\ species \in [NumGenes : 0..MaxPermGenes, MaxAllele : 0..MaxPermAllele]
    /\ mutator = [name |-> ""]
    /\ genes = <<>>
    /\ draws = <<>>
    /\ swaps = <<>>

\* NewPerm returns Chromosome{} and an error
NewPermFails ==
    /\ call = "NewPerm" /\ pc = "ready"
    /\ NewPermTooNarrow(species)
    /\ pc' = "done"
    /\ err' = "NewPerm() cannot generate elements"
    /\ genes' = <<>>
    /\ UNCHANGED <<call, selVars, crossVars, evoVars, mutator, draws, swaps, serVars, flagVars, memVars>>

\* NewPerm returns child and nil; genes is child.Genes
NewPermReturns ==
    /\ call = "NewPerm" /\ pc = "ready"
    /\ ~NewPermTooNarrow(species)
    /\ \E r \in Perm(species.NumGenes) :
          genes' = NewPermAssign(New(species), r, 0)
    /\ pc' = "done"
    /\ err' = ""
    /\ UNCHANGED <<call, selVars, crossVars, evoVars, mutator, draws, swaps, serVars, flagVars, memVars>>

NextNewPerm == NewPermFails \/ NewPermReturns

SpecNewPerm == InitNewPerm /\ [][NextNewPerm]_vars

----------------------------------------------------------------------------
(* The String and ParseChromosome calls *)

\* Chromosome.String: the encoding is commented out
ChromosomeString(g) == "DEPRECATED"

\* Species.ParseChromosome: the decoding is commented out; it returns
\* Chromosome{}, whose Genes is nil, and an error
ParseChromosome(s, enc) == [Genes |-> <<>>, err |-> "DEPRECATED"]

\* the chromosome is one the species makes
InitSerialization ==
    /\ call = "String"
    /\ pc = "ready"
    /\ err = ""
    /\ NoSelection
    /\ NoEvolve
    /\ NoFlag
    /\ NoStorage
    /\ crossover = [name |-> "", Points |-> 0]
    /\ a = <<>> /\ b = <<>>
    /\ cuts = <<>>
    /\ weight = 0
    /\ x = <<>> /\ y = <<>>
    /\ species \in [NumGenes : 1..MaxSerialGenes, MaxAllele : 0..MaxSerialAllele]
    /\ genes \in Genomes(species)
    /\ mutator = [name |-> ""]
    /\ draws = <<>>
    /\ swaps = <<>>
    /\ encoded = ""
    /\ parsed = <<>>

\* str := want.String(), and the call that follows is ParseChromosome(str)
CallString ==
    /\ call = "String" /\ pc = "ready"
    /\ encoded' = ChromosomeString(genes)
    /\ call' = "ParseChromosome"
    /\ pc' = "ready"
    /\ UNCHANGED <<selVars, crossVars, evoVars, mutVars, err, parsed, flagVars, memVars>>

\* got, err := s.ParseChromosome(str)
CallParseChromosome ==
    /\ call = "ParseChromosome" /\ pc = "ready"
    /\ parsed' = ParseChromosome(species, encoded).Genes
    /\ err' = ParseChromosome(species, encoded).err
    /\ pc' = "done"
    /\ UNCHANGED <<call, selVars, crossVars, evoVars, mutVars, encoded, flagVars, memVars>>

NextSerialization == CallString \/ CallParseChromosome

SpecSerialization == InitSerialization /\ [][NextSerialization]_vars

----------------------------------------------------------------------------
(* The strategy flags: NaturalSelectionFlag, CrossoverFlag, MutationFlag *)

\* the nil interface value of a flag's field
Nil == [name |-> ""]

\* A string is a sequence of tokens: a token is a maximal run of word
\* characters (\w) or one other character; " " stands for every character
\* that is neither a word character nor a parenthesis.
Punctuation == {"(", ")", " "}

IsWord(t) == t \notin Punctuation

\* flagFmt.FindStringSubmatch(s) for ^(\w+)(\((\w*)\))?$: fn is match[1], arg
\* is match[3]; ok is false when match is nil
FlagFmt(s) ==
    IF Len(s) = 1 /\ IsWord(s[1])
    THEN [ok |-> TRUE, fn |-> s[1], arg |-> ""]
    ELSE IF Len(s) = 3 /\ IsWord(s[1]) /\ s[2] = "(" /\ s[3] = ")"
    THEN [ok |-> TRUE, fn |-> s[1], arg |-> ""]
    ELSE IF Len(s) = 4 /\ IsWord(s[1]) /\ s[2] = "(" /\ IsWord(s[3]) /\ s[4] = ")"
    THEN [ok |-> TRUE, fn |-> s[1], arg |-> s[3]]
    ELSE [ok |-> FALSE, fn |-> "", arg |-> ""]

\* strconv.Atoi on a word: the numerals of the model, an error otherwise
Atoi(w) ==
    CASE w = "0" -> [ok |-> TRUE, val |-> 0]
      [] w = "1" -> [ok |-> TRUE, val |-> 1]
      [] w = "2" -> [ok |-> TRUE, val |-> 2]
      [] w = "3" -> [ok |-> TRUE, val |-> 3]
      [] OTHER -> [ok |-> FALSE, val |-> 0]

\* what a Set call does: the field afterwards and the error returned, or the
\* panic of match[1] on a nil match
SetReturns(field, e) == [field |-> field, err |-> e, panic |-> FALSE]
SetPanics(field) == [field |-> field, err |-> "", panic |-> TRUE]

\* a test that lets a flag be set again
AlreadySetNever(field) == FALSE

\* if f.selection != nil (f.crossover, f.mutator)
AlreadySet(field) == field # Nil

\* the switch of NaturalSelectionFlag.Set and what follows it
NaturalSelectionSwitch(field, fn, arg) ==
    LET n == Atoi(arg)
        chosen == CASE fn = "StochasticUniversalSampling" -> SUS
                    [] fn = "RankedSelection" -> Ranked
                    [] fn = "TournamentSelection" -> Tournament(n.val)
                    [] OTHER -> Nil
    IN IF fn = "TournamentSelection" /\ (~n.ok \/ n.val < 2)
       THEN SetReturns(field, "param should a whole number >= 2")
       ELSE IF chosen = Nil
       THEN SetReturns(field, "unknown function name")
       ELSE IF fn # "TournamentSelection" /\ arg # ""
       THEN SetReturns(chosen, "function does not accept parameters")
       ELSE SetReturns(chosen, "")

\* NaturalSelectionFlag.Set
NaturalSelectionFlagSet(field, s) ==
    IF AlreadySet(field) THEN SetReturns(field, "already set")
    ELSE IF ~FlagFmt(s).ok THEN SetPanics(field)
    ELSE NaturalSelectionSwitch(field, FlagFmt(s).fn, FlagFmt(s).arg)

\* the switch of CrossoverFlag.Set and what follows it
CrossoverSwitch(field, fn, arg) ==
    LET n == Atoi(arg)
        chosen == CASE fn = "WholeArithmeticRecombination" -> WholeArithmeticRecombination
                    [] fn = "DavisOrderCrossover" -> DavisOrderCrossover
                    [] fn = "MultiPointCrossover" -> MultiPointCrossover(n.val)
                    [] OTHER -> Nil
    IN IF fn = "MultiPointCrossover" /\ (~n.ok \/ n.val < 2)
       THEN SetReturns(field, "param should a whole number >= 2")
       ELSE IF chosen = Nil
       THEN SetReturns(field, "unknown function name")
       ELSE IF fn # "MultiPointCrossover" /\ arg # ""
       THEN SetReturns(chosen, "function does not accept parameters")
       ELSE SetReturns(chosen, "")

\* CrossoverFlag.Set
CrossoverFlagSet(field, s) ==
    IF AlreadySet(field) THEN SetReturns(field, "already set")
    ELSE IF ~FlagFmt(s).ok THEN SetPanics(field)
    ELSE CrossoverSwitch(field, FlagFmt(s).fn, FlagFmt(s).arg)

\* the switch of MutationFlag.Set and what follows it
MutationSwitch(field, fn, arg) ==
    LET chosen == CASE fn = "RandomResettingMutation" -> RandomResettingMutation
                    [] fn = "SwapMutation" -> SwapMutation
                    [] fn = "ScrambleMutation" -> ScrambleMutation
                    [] fn = "InversionMutation" -> InversionMutation
                    [] OTHER -> Nil
    IN IF chosen = Nil
       THEN SetReturns(field, "unknown function name")
       ELSE IF arg # ""
       THEN SetReturns(chosen, "function does not accept parameters")
       ELSE SetReturns(chosen, "")

\* MutationFlag.Set
MutationFlagSet(field, s) ==
    IF AlreadySet(field) THEN SetReturns(field, "already set")
    ELSE IF ~FlagFmt(s).ok THEN SetPanics(field)
    ELSE MutationSwitch(field, FlagFmt(s).fn, FlagFmt(s).arg)

\* f.Set(s) for the flag f
FlagSet(f, s) ==
    CASE f.kind = "NaturalSelection" -> NaturalSelectionFlagSet(f.field, s)
      [] f.kind = "Crossover" -> CrossoverFlagSet(f.field, s)
      [] f.kind = "Mutation" -> MutationFlagSet(f.field, s)

\* f.Get() for the flag f: the default strategy when the field is nil
FlagGet(f) ==
    IF f.field # Nil THEN f.field
    ELSE CASE f.kind = "NaturalSelection" -> SUS
           [] f.kind = "Crossover" -> MultiPointCrossover(1)
           [] f.kind = "Mutation" -> ScrambleMutation

\* the strategy names a flag knows
FlagNames(kind) ==
    CASE kind = "NaturalSelection" ->
           {"StochasticUniversalSampling", "RankedSelection", "TournamentSelection"}
      [] kind = "Crossover" ->
           {"WholeArithmeticRecombination", "DavisOrderCrossover", "MultiPointCrossover"}
      [] kind = "Mutation" ->
           {"RandomResettingMutation", "SwapMutation", "ScrambleMutation", "InversionMutation"}

\* the words of the arguments given to Set: the names, numerals below and
\* from 2, and a word that is neither a name nor a numeral
FlagWords(kind) == FlagNames(kind) \cup {"1", "2", "3", "x"}

\* the arguments given to Set: every string of at most two tokens, and the
\* strings word( word and word(word)
FlagInputs(kind) ==
    LET W == FlagWords(kind)
        T == W \cup Punctuation
    IN {<<>>} \cup {<<t>> : t \in T}
          \cup {s \in SeqsOfLen(T, 2) : ~(IsWord(s[1]) /\ IsWord(s[2]))}
          \cup {<<w, "(", ")">> : w \in W}
          \cup {<<w[1], "(", w[2]>> : w \in W \X W}
          \cup {<<w[1], "(", w[2], ")">> : w \in W \X W}

\* var flag NaturalSelectionFlag (CrossoverFlag, MutationFlag): the zero value
InitFlags ==
    /\ call = "Set"
    /\ pc = "ready"
    /\ err = ""
    /\ NoSelection
    /\ NoCrossover
    /\ NoEvolve
    /\ NoMutate
    /\ NoSerialize
    /\ NoStorage
    /\ flag \in {[kind |-> k, field |-> Nil] : k \in {"NaturalSelection", "Crossover", "Mutation"}}
    /\ input = <<>>
    /\ got = Nil

\* flag.Set(s)
CallSet ==
    /\ pc # "panic"
    /\ \E s \in FlagInputs(flag.kind) :
          LET r == FlagSet(flag, s)
          IN /\ input' = s
             /\ flag' = [flag EXCEPT !.field = r.field]
             /\ err' = r.err
             /\ pc' = IF r.panic THEN "panic" ELSE "done"
    /\ call' = "Set"
    /\ UNCHANGED <<selVars, crossVars, evoVars, mutVars, serVars, got, memVars>>

\* flag.Get()
CallGet ==
    /\ pc # "panic"
    /\ got' = FlagGet(flag)
    /\ call' = "Get"
    /\ pc' = "done"
    /\ UNCHANGED <<selVars, crossVars, evoVars, mutVars, serVars, err, flag, input, memVars>>

NextFlags == CallSet \/ CallGet

SpecFlags == InitFlags /\ [][NextFlags]_vars

----------------------------------------------------------------------------
(* Claims about the selection strategies *)

AllNonNegative(f) == \A i \in 1..Len(f) : f[i] >= 0

Distinct(s) == \A i, j \in 1..Len(s) : i # j => s[i] # s[j]

\* the sum of f[0 .. i-1]
PrefixSum(f, i) == Sum(SubSeq(f, 1, i))

\* the conditions C3 puts on the arguments of each strategy
C3_Precondition ==
    \/ /\ selector = SUS
       /\ AllNonNegative(fitness)
       /\ Sum(fitness) >= numParents
    \/ /\ selector = Ranked
       /\ (Len(fitness) * (Len(fitness) + 1)) \div 2 >= numParents
    \/ /\ selector.name = "TournamentSelection"
       /\ selector.Size \in 1..Len(fitness)

\* C3: under its preconditions, SelectParents of each of the three strategies
\* returns exactly numParents indexes, each in [0, len(fitness)).
C3_ExactlyNumParents ==
    (call = "SelectParents" /\ pc # "ready" /\ C3_Precondition) =>
        /\ pc = "done"
        /\ Len(indexes) = numParents
        /\ \A n \in 1..Len(indexes) : indexes[n] \in Indexes(fitness)

\* What does hold of the code for C3: the call returns, every returned index is in
\* range, and there are at least numParents of them (exactly numParents from
\* TournamentSelection).
C3_AtLeastNumParents ==
    (call = "SelectParents" /\ pc # "ready" /\ C3_Precondition) =>
        /\ pc = "done"
        /\ Len(indexes) >= numParents
        /\ selector.name = "TournamentSelection" => Len(indexes) = numParents
        /\ \A n \in 1..Len(indexes) : indexes[n] \in Indexes(fitness)

\* the index whose cumulative interval [sum(f[0..i-1]), sum(f[0..i])) contains ptr
PointerIndex(f, ptr) ==
    CHOOSE i \in Indexes(f) : PrefixSum(f, i) <= ptr /\ ptr < PrefixSum(f, i + 1)

\* C4: with non-negative fitness, StochasticUniversalSampling returns, for
\* n = 0 .. numParents-1 in that order, the index whose cumulative interval
\* contains the pointer pos + n*distance, with distance = sum(fitness)/numParents.
C4_SusPointers ==
    (selector = SUS /\ pc = "done" /\ AllNonNegative(fitness)) =>
        indexes = [n \in 1..numParents |->
                     PointerIndex(fitness, pos + (n - 1) * (Sum(fitness) \div numParents))]

\* What does hold of the code for C4: the first numParents returned indexes are
\* the indexes of the numParents pointers.
C4_SusPointersPrefix ==
    (selector = SUS /\ pc = "done" /\ AllNonNegative(fitness)) =>
        /\ Len(indexes) >= numParents
        /\ SubSeq(indexes, 1, numParents) =
               [n \in 1..numParents |->
                  PointerIndex(fitness, pos + (n - 1) * (Sum(fitness) \div numParents))]

\* the rank weight of individual i: 1 for the lowest fitness, N for the highest
RankWeight(f, i) == 1 + Cardinality({j \in Indexes(f) : f[j + 1] < f[i + 1]})

\* where individual i's slice of the rank wheel starts: the weights of the fitter
RankStart(f, i) ==
    Sum([j \in 1..Len(f) |-> IF f[j] > f[i + 1] THEN RankWeight(f, j - 1) ELSE 0])

\* C5: over pairwise-distinct fitness values RankedSelection walks the wheel of
\* size N*(N+1)/2 on which the individual of rank r (N = highest fitness) owns r
\* consecutive positions, highest rank first, with distance N*(N+1)/2 / numParents:
\* every returned index is the owner of its pointer.  The result depends only on
\* the order of the fitness values: it is a result of the same call on the
\* vector of the ranks.
C5_RankWheel ==
    (selector = Ranked /\ pc = "done" /\ Distinct(fitness)) =>
        LET N == Len(fitness)
            distance == ((N * (N + 1)) \div 2) \div numParents
            ranks == [i \in 1..N |-> RankWeight(fitness, i - 1)]
        IN /\ Len(indexes) >= numParents
           /\ \A n \in 1..Len(indexes) :
                 LET ptr == pos + (n - 1) * distance
                     i == indexes[n]
                 IN /\ RankStart(fitness, i) <= ptr
                    /\ ptr < RankStart(fitness, i) + RankWeight(fitness, i)
           /\ \E o \in SortedDescending(ranks) :
                 RankedSelect(numParents, ranks, o, pos) = Ok(indexes)

\* a vector with a negative value, selected from with two pointers or more
C5_Witness ==
    /\ selector = Ranked /\ pc = "done" /\ Distinct(fitness)
    /\ Len(fitness) = 3 /\ numParents >= 2
    /\ \E i \in 1..Len(fitness) : fitness[i] < 0
    /\ indexes[1] # indexes[Len(indexes)]

\* the position in the deal d of the candidate c
DealPosition(d, c) == CHOOSE j \in 1..Len(d) : d[j] = c

\* C6: for each parent TournamentSelection deals Size distinct candidates and
\* returns one of them whose fitness is >= that of every dealt candidate; of the
\* candidates that tie for the greatest fitness, the one dealt last.
C6_Tournament ==
    (selector.name = "TournamentSelection" /\ pc = "done") =>
        /\ Len(indexes) = numParents
        /\ \A n \in 1..numParents :
              LET d == deals[n]
                  w == indexes[n]
              IN /\ Len(d) = selector.Size /\ Distinct(d)
                 /\ \E j \in 1..Len(d) : d[j] = w
                 /\ \A j \in 1..Len(d) : fitness[w + 1] >= fitness[d[j] + 1]
                 /\ \A j \in 1..Len(d) :
                       fitness[d[j] + 1] = fitness[w + 1] => j <= DealPosition(d, w)

\* two parents, one of them picked among candidates that tie for the greatest
\* fitness, the tied candidate dealt first not being the one returned
C6_Witness ==
    /\ selector.name = "TournamentSelection" /\ pc = "done"
    /\ numParents = 2 /\ selector.Size >= 2
    /\ \E n \in 1..numParents :
          /\ fitness[deals[n][1] + 1] = fitness[indexes[n] + 1]
          /\ deals[n][1] # indexes[n]
    /\ \E n \in 1..numParents : deals[n][1] = indexes[n]

----------------------------------------------------------------------------
(* Claims about the crossover strategies *)

\* the number of dealt cut positions c with c <= i
CutsUpTo(dealt, i) == Cardinality({j \in 1..Len(dealt) : dealt[j] <= i})

\* the values of a slice
Range(s) == {s[i] : i \in 1..Len(s)}

\* the orders in which n cut positions can be dealt
Orders == [n \in 0..MaxPoints |-> Deal(n, n)]

\* C7: MultiPointCrossover with the dealt set of distinct cut positions in
\* [0, numGenes): at every gene position i child X holds a[i] and child Y b[i]
\* when the number of cuts <= i is even, X holds b[i] and Y a[i] when it is odd;
\* every order of dealing the same positions gives the same children.
C7_MultiPointParity ==
    (crossover.name = "MultiPointCrossover" /\ pc = "done") =>
        /\ Len(cuts) = crossover.Points /\ Distinct(cuts)
        /\ Range(cuts) \subseteq Indexes(a)
        /\ Len(x) = Len(a) /\ Len(y) = Len(b)
        /\ \A i \in Indexes(a) :
              IF CutsUpTo(cuts, i) % 2 = 0
              THEN x[i + 1] = a[i + 1] /\ y[i + 1] = b[i + 1]
              ELSE x[i + 1] = b[i + 1] /\ y[i + 1] = a[i + 1]
        /\ \A order \in Orders[Len(cuts)] :
              MultiPoint(a, b, [i \in 1..Len(cuts) |-> cuts[order[i] + 1]])
                  = Ok([x |-> x, y |-> y])

\* three cuts dealt out of order between parents that differ at every position
C7_Witness ==
    /\ crossover.name = "MultiPointCrossover" /\ pc = "done"
    /\ Len(cuts) = 3 /\ cuts[1] > cuts[2] /\ cuts[3] > cuts[2]
    /\ Len(a) = 3
    /\ \A i \in 1..Len(a) : a[i] # b[i]

\* C8: WholeArithmeticRecombination, for every drawn weight and every gene
\* position i: y[i] = b[i] - (x[i] - a[i]), so x[i] + y[i] = a[i] + b[i].
C8_ComplementaryDelta ==
    (crossover = WholeArithmeticRecombination /\ pc = "done") =>
        /\ Len(x) = species.NumGenes /\ Len(y) = species.NumGenes
        /\ \A i \in 1..species.NumGenes :
              /\ y[i] = b[i] - (x[i] - a[i])
              /\ x[i] + y[i] = a[i] + b[i]

\* the weight 1/2 on a position where a + b is odd (the interpolation is a half),
\* and child X is neither parent
C8_Witness ==
    /\ crossover = WholeArithmeticRecombination /\ pc = "done"
    /\ 2 * weight = Pow2(WeightBits)
    /\ species.NumGenes = 2
    /\ \E i \in 1..2 : (a[i] + b[i]) % 2 = 1
    /\ x # a /\ x # b

\* C9: when both parents are permutations of [0, numGenes), for every pair of
\* cut points DavisOrderCrossover returns, and both children are permutations of
\* [0, numGenes).
C9_ChildrenArePermutations ==
    (crossover = DavisOrderCrossover /\ pc # "ready"
        /\ IsPermutation(a) /\ IsPermutation(b)) =>
        /\ pc = "done"
        /\ Len(x) = species.NumGenes /\ IsPermutation(x)
        /\ Len(y) = species.NumGenes /\ IsPermutation(y)

\* two different permutations crossed into children that are neither parent
C9_Witness ==
    /\ crossover = DavisOrderCrossover /\ pc = "done"
    /\ IsPermutation(a) /\ IsPermutation(b) /\ a # b
    /\ species.NumGenes = 3
    /\ x \notin {a, b} /\ y \notin {a, b}

\* the values of s that are not in the set skip, in the order of s
RECURSIVE Without(_, _)
Without(s, skip) ==
    IF s = <<>> THEN <<>>
    ELSE IF s[1] \in skip THEN Without(Tail(s), skip)
    ELSE <<s[1]>> \o Without(Tail(s), skip)

\* the child C10 describes: [lower, upper) from the primary parent p1, the other
\* positions, from upper on and wrapping, the values of the secondary parent p2
\* that are not in the copied segment, in the order of p2
OrderChild(p1, p2, lower, upper) ==
    LET N == Len(p1)
        rest == Without(p2, {p1[q + 1] : q \in lower..(upper - 1)})
    IN [i \in 1..N |->
          IF lower <= i - 1 /\ i - 1 < upper THEN p1[i]
          ELSE rest[((i - 1 - upper + N) % N) + 1]]

\* C10: for permutation parents and the two dealt cut points taken in ascending
\* order as lower < upper, child X is OrderChild of (a, b) and child Y is
\* OrderChild of (b, a).
C10_OrderChildren ==
    (crossover = DavisOrderCrossover /\ pc = "done"
        /\ IsPermutation(a) /\ IsPermutation(b)) =>
        LET lower == Min(cuts[1], cuts[2])
            upper == IF cuts[1] > cuts[2] THEN cuts[1] ELSE cuts[2]
        IN /\ lower < upper
           /\ x = OrderChild(a, b, lower, upper)
           /\ y = OrderChild(b, a, lower, upper)

\* cut points dealt in descending order, the filling wrapping past the end
C10_Witness ==
    /\ crossover = DavisOrderCrossover /\ pc = "done"
    /\ IsPermutation(a) /\ IsPermutation(b) /\ a # b
    /\ species.NumGenes = 3
    /\ cuts = <<2, 1>>
    /\ x # y

----------------------------------------------------------------------------
(* Claims about the worst-k selection and the Evolver *)

\* C1: for a fitness vector of length n and 1 <= k <= n, kMinIndexes returns
\* exactly k pairwise-distinct indexes of [0, n), and the fitness at every
\* returned index is <= the fitness at every index that is not returned.
C1_BottomK ==
    (call = "kMinIndexes" /\ pc # "ready" /\ numParents \in 1..Len(fitness)) =>
        /\ pc = "done"
        /\ Len(indexes) = numParents
        /\ Distinct(indexes)
        /\ Range(indexes) \subseteq Indexes(fitness)
        /\ \A i \in Range(indexes) : \A j \in Indexes(fitness) \ Range(indexes) :
              fitness[i + 1] <= fitness[j + 1]

\* three of five, two of the seed replaced during the scan, an individual left
\* out that ties with one returned
C1_Witness ==
    /\ call = "kMinIndexes" /\ pc = "done"
    /\ Len(fitness) = 5 /\ numParents = 3
    /\ Cardinality(Range(indexes) \ {0, 1, 2}) = 2
    /\ \E i \in Range(indexes) : \E j \in Indexes(fitness) \ Range(indexes) :
          fitness[i + 1] = fitness[j + 1]

----------------------------------------------------------------------------
(* Claims about Evolve *)

\* C2: when Evolve returns from a call with an even ReplacementCount k that is
\* at most len(pop), the population is as long as before, the slots written
\* are k distinct slots whose scores are at most every other slot's score,
\* child number c is in the c-th of these slots, and every other slot holds
\* the chromosome it held before the call.
C2_EvolveFrame ==
    [][(/\ call = "Evolve" /\ pc = "ready" /\ pc' = "done"
        /\ evolver.ReplacementCount % 2 = 0
        /\ evolver.ReplacementCount <= Len(pop))
       => /\ Len(pop') = Len(pop)
          /\ Len(minIndexes') = evolver.ReplacementCount
          /\ Len(children') = evolver.ReplacementCount
          /\ Distinct(minIndexes')
          /\ Range(minIndexes') \subseteq Indexes(pop)
          /\ \A i \in Range(minIndexes') : \A j \in Indexes(pop) \ Range(minIndexes') :
                scores[i + 1] <= scores[j + 1]
          /\ \A c \in 1..evolver.ReplacementCount : pop'[minIndexes'[c] + 1] = children'[c]
          /\ \A j \in Indexes(pop) \ Range(minIndexes') : pop'[j + 1] = pop[j + 1]]_vars

\* Evolve returned after replacing two slots other than the first two of a
\* larger population with two different children
C2_Witness ==
    /\ call = "Evolve" /\ pc = "done"
    /\ evolver.ReplacementCount = 2
    /\ Len(pop) > 2
    /\ Range(minIndexes) # {0, 1}
    /\ children[1] # children[2]
    /\ pop[minIndexes[1] + 1] = children[1]
    /\ pop[minIndexes[2] + 1] = children[2]

----------------------------------------------------------------------------
(* Claims about the mutators *)

\* a Mutate call of mutator m is about to be made
Mutating(m) == call = "Mutate" /\ pc = "ready" /\ mutator = m

\* a Mutate call of mutator m has returned
Mutated(m) == call = "Mutate" /\ pc = "done" /\ mutator = m

\* C11: on a chromosome of at least two genes SwapMutation returns, whatever
\* the two draws, with the genes at i0 and i1 = i0 + d exchanged, i0 and i1
\* different and both in [0, numGenes), and every other gene as it was.
C11_SwapExchangesTwo ==
    [][(Mutating(SwapMutation) /\ Len(genes) >= 2)
       => /\ pc' = "done"
          /\ LET i0 == draws'[1]
                 i1 == draws'[1] + (draws'[2] + 1)
             IN /\ i0 # i1
                /\ {i0, i1} \subseteq Indexes(genes)
                /\ Len(genes') = Len(genes)
                /\ genes'[i0 + 1] = genes[i1 + 1]
                /\ genes'[i1 + 1] = genes[i0 + 1]
                /\ \A k \in Indexes(genes) \ {i0, i1} : genes'[k + 1] = genes[k + 1]]_vars

\* SwapMutation exchanged the first gene with a different last gene of four
C11_Witness ==
    /\ Mutated(SwapMutation)
    /\ Len(genes) = 4
    /\ draws = <<0, 2>>
    /\ swaps = <<<<0, 3>>>>
    /\ genes[1] # genes[4]

\* the segment [l, l + d] of a returned ScrambleMutation or InversionMutation
SegmentOf(ds) == ds[1]..(ds[1] + (ds[2] + 1))

\* C12 as stated: every position ScrambleMutation visits is exchanged with a
\* position of the segment that is earlier than it or is the position itself.
C12_ScrambleEarlierOrEqual ==
    Mutated(ScrambleMutation)
       => \A t \in 1..Len(swaps) :
             /\ swaps[t][2] \in SegmentOf(draws)
             /\ swaps[t][2] <= swaps[t][1]

\* C12 as amended: ScrambleMutation visits the positions l, l+1, .. l+d-1 in
\* this order and exchanges each with the position l + d2, d2 drawn from
\* [0, d] in that turn: a position of the segment [l, l+d] that may be
\* earlier or later than the position visited; the genes outside the segment
\* stay as they were and those inside are rearranged among themselves.
C12_ScrambleWithinSegment ==
    [][Mutating(ScrambleMutation) /\ pc' = "done"
       => LET l == draws'[1]
              d == draws'[2] + 1
          IN /\ Len(draws') = 2 + d
             /\ Len(swaps') = d
             /\ \A t \in 1..d :
                   /\ draws'[2 + t] \in 0..d
                   /\ swaps'[t][1] = l + t - 1
                   /\ swaps'[t][2] = l + draws'[2 + t]
                   /\ swaps'[t][2] \in SegmentOf(draws')
             /\ SegmentOf(draws') \subseteq Indexes(genes)
             /\ Len(genes') = Len(genes)
             /\ \A k \in Indexes(genes) \ SegmentOf(draws') : genes'[k + 1] = genes[k + 1]
             /\ \A v \in Range(genes) :
                   Cardinality({k \in SegmentOf(draws') : genes'[k + 1] = v})
                      = Cardinality({k \in SegmentOf(draws') : genes[k + 1] = v})]_vars

\* ScrambleMutation returned after exchanging a position with a later one
C12_Witness ==
    /\ Mutated(ScrambleMutation)
    /\ \E t \in 1..Len(swaps) : swaps[t][2] > swaps[t][1] /\ genes[swaps[t][1] + 1] # genes[swaps[t][2] + 1]
    /\ Len(swaps) >= 2

\* C13: InversionMutation with the draws l and d returns with the genes at
\* l .. l+d in reversed order and every other gene as it was.
C13_InversionReverses ==
    [][Mutating(InversionMutation) /\ pc' = "done"
       => LET l == draws'[1]
              d == draws'[2] + 1
          IN /\ l \in 0..(species.NumGenes - 2)
             /\ d \in 1..(species.NumGenes - l - 1)
             /\ Len(genes') = Len(genes)
             /\ \A k \in Indexes(genes) :
                   genes'[k + 1] = IF k \in l..(l + d) THEN genes[(l + (l + d) - k) + 1]
                                   ELSE genes[k + 1]]_vars

\* InversionMutation reversed all four genes of a chromosome that is not its
\* own mirror image
C13_Witness ==
    /\ Mutated(InversionMutation)
    /\ Len(genes) = 4
    /\ draws = <<0, 2>>
    /\ genes[1] # genes[4]
    /\ genes[2] # genes[3]

----------------------------------------------------------------------------
(* Claims about Species.NewPerm *)

\* C15: NewPerm returns an error exactly when MaxAllele < NumGenes - 1;
\* otherwise it returns NumGenes genes in which every value of [0, NumGenes)
\* appears exactly once.
C15_NewPerm ==
    (call = "NewPerm" /\ pc = "done")
       => /\ (err # "") <=> (species.MaxAllele < species.NumGenes - 1)
          /\ err = "" =>
                /\ Len(genes) = species.NumGenes
                /\ \A v \in 0..(species.NumGenes - 1) :
                      Cardinality({i \in 1..Len(genes) : genes[i] = v}) = 1

\* NewPerm returned a permutation that is not the identity for a species whose
\* MaxAllele is exactly NumGenes - 1
C15_Witness ==
    /\ call = "NewPerm" /\ pc = "done" /\ err = ""
    /\ species.NumGenes = 4
    /\ species.MaxAllele = 3
    /\ genes = <<2, 0, 3, 1>>

\* NewPerm returned an error for a species whose MaxAllele is NumGenes - 2
C15_WitnessError ==
    /\ call = "NewPerm" /\ pc = "done" /\ err # ""
    /\ species.NumGenes = 4
    /\ species.MaxAllele = 2

----------------------------------------------------------------------------
(* Claims about serialization *)

\* C16: parsing the string of a chromosome of the species succeeds and returns
\* a chromosome with the same genes.
C16_RoundTrip ==
    (call = "ParseChromosome" /\ pc = "done") => (err = "" /\ parsed = genes)

\* what the code does instead: every parse returns an error and no genes
C16_ParseAlwaysFails ==
    (call = "ParseChromosome" /\ pc = "done") => (err = "DEPRECATED" /\ parsed = <<>>)

----------------------------------------------------------------------------
(* Claims about the strategy flags *)

\* C17: a Set call that returns nil leaves the flag's field set; while the
\* field is set, every Set call, whatever its argument, returns an error and
\* leaves the field as it is, and Get returns the strategy of the field.
C17_SetOnce ==
    [][/\ (call' = "Set" /\ pc' = "done" /\ err' = "")
          => (flag'.field # Nil /\ FlagGet(flag') = flag'.field)
       /\ (flag.field # Nil /\ call' = "Set")
          => (pc' = "done" /\ err' # "" /\ flag' = flag)
       /\ (flag.field # Nil /\ call' = "Get")
          => (got' = flag.field /\ flag' = flag)]_vars

\* a Set call with a well-formed argument naming another strategy returned an
\* error on a flag that an earlier Set call had set to TournamentSelection(2),
\* and the Get call after it returned TournamentSelection(2)
C17_Witness ==
    /\ call = "Get" /\ pc = "done"
    /\ flag = [kind |-> "NaturalSelection", field |-> Tournament(2)]
    /\ input = <<"RankedSelection">>
    /\ err = "already set"
    /\ got = Tournament(2)

\* the arguments that are not a valid configuration of a flag of this kind:
\* an unknown name, a sized strategy without a numeral of at least 2, a
\* strategy without size given a parameter, a string of another shape
SizedName(kind) ==
    CASE kind = "NaturalSelection" -> {"TournamentSelection"}
      [] kind = "Crossover" -> {"MultiPointCrossover"}
      [] kind = "Mutation" -> {}

ValidConfigurations(kind) ==
    {<<w>> : w \in FlagNames(kind) \ SizedName(kind)}
       \cup {<<w>> \o <<"(", n, ")">> : w \in SizedName(kind), n \in {"2", "3"}}

\* the same names followed by an empty pair of parentheses, which the claim
\* does not speak of
EmptyParentheses(kind) == {<<w, "(", ")">> : w \in FlagNames(kind) \ SizedName(kind)}

InvalidConfiguration(kind, s) ==
    s \notin ValidConfigurations(kind) \cup EmptyParentheses(kind)

\* C18: a Set call whose argument is not a valid configuration returns an
\* error: it neither returns nil nor panics.
C18_InvalidIsError ==
    (call = "Set" /\ pc # "ready" /\ InvalidConfiguration(flag.kind, input))
       => (pc = "done" /\ err # "")

\* what holds instead: such a call returns an error when the argument has the
\* shape name or name(param) or the flag is set already, and panics otherwise
C18_InvalidIsErrorOrPanic ==
    [][(call' = "Set" /\ InvalidConfiguration(flag.kind, input'))
       => IF FlagFmt(input').ok \/ flag.field # Nil
          THEN pc' = "done" /\ err' # ""
          ELSE pc' = "panic"]_vars

----------------------------------------------------------------------------
(* Claims about the frequency-gated RandomResetting *)

\* C19: when the first draw of RandomResetting.Mutate, the Float32 compared
\* with Freq, exceeds Freq, the call returns and every gene of the chromosome
\* is what it was.
C19_NoMutationAboveFreq ==
    [][(call = "RandomResetting.Mutate" /\ pc = "ready" /\ draws'[1] > mutator.Freq)
       => (pc' = "done" /\ genes' = genes /\ draws' = <<draws'[1]>>)]_vars

\* a chromosome of several genes went through Mutate with a draw above a
\* positive frequency
C19_Witness ==
    /\ call = "RandomResetting.Mutate" /\ pc = "done"
    /\ mutator.Freq = 1
    /\ draws = <<2>>
    /\ Len(genes) = MaxFreqGenes
    /\ species.BitsPerGene = MaxBitsPerGene

----------------------------------------------------------------------------
(* Claims about the order of the calls Evolve makes with rand *)

\* the draws for the mutation of the children
MutationCall(c) == c \in {"Float32", "Mutate"}

\* C20 as stated: selection, shuffle, every Crossover, and only then the
\* mutation draws; no Float32 or Mutate call comes before a Crossover call.
C20_PhasedCalls ==
    (call = "Evolve" /\ pc # "ready")
       => \A i, j \in 1..Len(randLog) :
             (i < j /\ randLog[j] = "Crossover") => ~MutationCall(randLog[i])

\* the calls of one turn of the loop: Crossover, then for each of the two
\* children one Float32 and, after some of them, Mutate
PairBlocks ==
    {<<"Crossover">> \o m1 \o m2 : m1, m2 \in {<<"Float32">>, <<"Float32", "Mutate">>}}

\* the calls of the turns that make k children
RECURSIVE PairwiseLogs(_)
PairwiseLogs(k) ==
    IF k <= 0 THEN {<<>>}
    ELSE {blk \o rest : blk \in PairBlocks, rest \in PairwiseLogs(k - 2)}

\* the whole logs of an Evolve that makes k children
EvolveLogs(k) == {<<"SelectParents", "Shuffle">> \o l : l \in PairwiseLogs(k)}

IsPrefix(s, t) == Len(s) <= Len(t) /\ s = SubSeq(t, 1, Len(s))

\* C20 amended: selection, then shuffle, then for every consecutive pair in
\* turn Crossover followed by the mutation-rate draw (and the Mutator call)
\* of each of its two children; a call that returns has made exactly these
\* calls for ReplacementCount children, a call that panics a prefix of them.
C20_PairwiseCalls ==
    (call = "Evolve" /\ pc # "ready")
       => /\ pc = "done" => /\ randLog \in EvolveLogs(evolver.ReplacementCount)
                            /\ Len(children) = evolver.ReplacementCount
          /\ \E l \in EvolveLogs(evolver.ReplacementCount) : IsPrefix(randLog, l)

\* Evolve returned four children, the first of them mutated before the
\* parents of the last two were crossed
C20_Witness ==
    /\ call = "Evolve" /\ pc = "done"
    /\ evolver.ReplacementCount = 4
    /\ Len(children) = 4
    /\ randLog = <<"SelectParents", "Shuffle",
                   "Crossover", "Float32", "Mutate", "Float32",
                   "Crossover", "Float32", "Float32", "Mutate">>

----------------------------------------------------------------------------
(* Claims about ties in the worst-k selection *)

\* C21 as stated: of the individuals of equal fitness the ones returned are
\* those seen first; an earlier one is never left out while a later one of
\* the same fitness is returned.
C21_FirstSeenKept ==
    (call = "kMinIndexes" /\ pc = "done" /\ numParents \in 1..Len(fitness)) =>
        \A i, j \in Indexes(fitness) :
            (i < j /\ fitness[i + 1] = fitness[j + 1] /\ j \in Range(indexes))
               => i \in Range(indexes)

\* C21 amended: an individual already held is never displaced in favour of a
\* later individual of equal fitness: every returned index j >= k came in with
\* a fitness strictly below the k-th smallest fitness of the individuals
\* before it, so fewer than k of them have a fitness <= its own.
C21_NoEvictionOnEqual ==
    (call = "kMinIndexes" /\ pc = "done" /\ numParents \in 1..Len(fitness)) =>
        \A j \in Range(indexes) :
            j >= numParents =>
               Cardinality({i \in 0..(j - 1) : fitness[i + 1] <= fitness[j + 1]}) < numParents

\* two of four: a later individual whose fitness equals the greatest fitness
\* returned was not let in, and an earlier individual was dropped for a
\* smaller one while a later one of the same fitness was kept
C21_Witness ==
    /\ call = "kMinIndexes" /\ pc = "done"
    /\ Len(fitness) = 4 /\ numParents = 2
    /\ \E j \in Indexes(fitness) \ Range(indexes) :
          /\ j >= numParents
          /\ \E i \in Range(indexes) :
                /\ fitness[i + 1] = fitness[j + 1]
                /\ \A m \in Range(indexes) : fitness[m + 1] <= fitness[i + 1]
    /\ \E i, j \in Indexes(fitness) :
          /\ i < j /\ fitness[i + 1] = fitness[j + 1]
          /\ j \in Range(indexes) /\ i \notin Range(indexes)

----------------------------------------------------------------------------
(* Claims about DavisOrderCrossover on parents that are not permutations *)

\* the genes are all in [0, numGenes)
InRange(g) == \A i \in 1..Len(g) : g[i] \in Indexes(g)

\* a parent with genes in [0, numGenes) is not a permutation
NotBothPermutations ==
    /\ crossover = DavisOrderCrossover
    /\ InRange(a) /\ InRange(b)
    /\ ~(IsPermutation(a) /\ IsPermutation(b))

\* C22 as stated: when a parent is not a permutation, whatever the cut
\* points, the two children are not both permutations.
C22_NeverBothPermutations ==
    (NotBothPermutations /\ pc = "done") => ~(IsPermutation(x) /\ IsPermutation(y))

\* C22 amended: when a parent is not a permutation the call returns, and for
\* at least one pair of cut points it can be dealt a child is not a
\* permutation.
C22_SomeCutBreaks ==
    NotBothPermutations =>
        /\ pc # "panic"
        /\ \E dealt \in Deal(Len(b) + 1, 2) :
              LET r == DavisOrder(species, a, b, dealt)
              IN /\ r.ok
                 /\ ~(IsPermutation(r.val.x) /\ IsPermutation(r.val.y))

\* neither parent is a permutation and both children are: each child kept the
\* whole of its primary parent but for the first gene, a repeated value that
\* the value missing from that parent overwrote
C22_Witness ==
    /\ crossover = DavisOrderCrossover /\ pc = "done"
    /\ a = <<0, 0, 1>> /\ b = <<0, 0, 2>>
    /\ cuts = <<0, 3>>
    /\ x = <<2, 0, 1>> /\ y = <<1, 0, 2>>

----------------------------------------------------------------------------
(* Claims about Evolve with too many replacements *)

\* C23: an Evolve call with ReplacementCount greater than the length of the
\* population (and of the scores, which is the same) never returns: it
\* panics, and the population is then what it was before the call.
C23_TooManyReplacements ==
    [][(call = "Evolve" /\ pc = "ready" /\ evolver.ReplacementCount > Len(pop))
       => (pc' = "panic" /\ pop' = pop)]_vars

\* two children asked of a population of one: they were selected, crossed and
\* one was mutated before kMinIndexes read past the end of the scores
C23_Witness ==
    /\ call = "Evolve" /\ pc = "panic"
    /\ evolver.ReplacementCount = 2 /\ Len(pop) = 1 /\ Len(scores) = 1
    /\ randLog = <<"SelectParents", "Shuffle", "Crossover", "Float32", "Mutate", "Float32">>

----------------------------------------------------------------------------
(* Claims about the generations *)

\* every gene of every chromosome of the population is in [0, MaxAllele]
PopInRange ==
    \A c \in 1..Len(pop) : \A i \in 1..Len(pop[c]) :
        0 <= pop[c][i] /\ pop[c][i] <= species.MaxAllele

Between(v, p, q) == (p <= v /\ v <= q) \/ (q <= v /\ v <= p)

\* the two parents of child number c (from 0): the pair it was crossed from
ParentsOf(c) == <<parents'[c - (c % 2) + 1], parents'[c - (c % 2) + 2]>>

\* C24: from a population whose genes are all in [0, MaxAllele], MaxAllele >=
\* 1, the genes of every chromosome are in [0, MaxAllele] after any number of
\* Evolve calls, for every crossover and mutator; and each gene of a child of
\* WholeArithmeticRecombination that was not mutated lies between the genes
\* its two parents had at that position.
C24_AllelesInRange ==
    /\ [](call = "Evolve" => PopInRange)
    /\ [][(/\ call = "Evolve" /\ pc = "ready" /\ pc' = "done"
           /\ evolver.Crossover = WholeArithmeticRecombination
           /\ "Mutate" \notin Range(randLog'))
          => \A c \in 0..(Len(children') - 1) : \A i \in 1..species.NumGenes :
                Between(children'[c + 1][i],
                        pop[ParentsOf(c)[1] + 1][i], pop[ParentsOf(c)[2] + 1][i])]_vars

\* an Evolve with WholeArithmeticRecombination and RandomResetting returned
\* after mutating a child; a child with a gene strictly inside the range is
\* in the population beside a chromosome of the largest alleles
C24_Witness ==
    /\ call = "Evolve" /\ pc = "done"
    /\ evolver.Crossover = WholeArithmeticRecombination
    /\ evolver.Mutator = RandomResettingMutation
    /\ "Mutate" \in Range(randLog)
    /\ \E c \in 1..Len(children) : \E i \in 1..species.NumGenes :
          /\ children[c][i] = 1
          /\ pop[minIndexes[c] + 1] = children[c]
    /\ \E c \in 1..Len(pop) : pop[c] = <<MaxGenerationAllele, MaxGenerationAllele>>

\* the evolver keeps permutations: DavisOrderCrossover with one of the
\* mutators that exchange genes
PermutationEvolver ==
    /\ call = "Evolve"
    /\ evolver.Crossover = DavisOrderCrossover
    /\ evolver.Mutator \in {SwapMutation, ScrambleMutation, InversionMutation}

\* C26: with DavisOrderCrossover and SwapMutation, ScrambleMutation or
\* InversionMutation, from a population of permutations of [0, numGenes),
\* every Evolve call returns and every chromosome of the population is a
\* permutation of [0, numGenes) after each generation, whatever the selection
\* strategy and the draws.
C26_PermutationsKept ==
    PermutationEvolver =>
        /\ pc # "panic"
        /\ \A c \in 1..Len(pop) :
              Len(pop[c]) = species.NumGenes /\ IsPermutation(pop[c])
        /\ \A c \in 1..Len(children) : IsPermutation(children[c])

\* two different parents crossed into children of which one was scrambled;
\* the population now holds a permutation that neither parent was
C26_Witness ==
    /\ PermutationEvolver /\ pc = "done"
    /\ evolver.Mutator = ScrambleMutation
    /\ evolver.Selector = Tournament(2)
    /\ randLog = <<"SelectParents", "Shuffle", "Crossover", "Float32", "Mutate", "Float32">>
    /\ pop[1] # pop[2]
    /\ children[1] # children[2]

----------------------------------------------------------------------------
(* Claims about Set calls that return an error *)

\* C25: a Set call that returns an error leaves the flag as it was; an unset
\* flag is still unset, and Get still returns the default strategy.
C25_FailedSetKeepsFlag ==
    [][(call' = "Set" /\ pc' = "done" /\ err' # "")
       => (flag' = flag /\ FlagGet(flag') = FlagGet(flag))]_vars

\* what holds of the code: a Set call that returns an error leaves the flag as
\* it was unless the error is that the strategy named takes no parameter, and
\* then the flag is set to that strategy
C25_FailedSetKeepsFlagButForParameter ==
    [][(call' = "Set" /\ pc' = "done" /\ err' # "")
       => IF err' = "function does not accept parameters" /\ flag.field = Nil
          THEN flag'.field # Nil /\ flag'.field.name = input'[1]
          ELSE flag' = flag]_vars

----------------------------------------------------------------------------
(* Claims about the gene arrays of parents and children *)

\* the Evolve call over the gene arrays has ended
EvolveStoreEnds == call = "Evolve" /\ pc = "ready" /\ pc' # "ready"

\* child number c (from 0) as the crossover of the chromosomes the population
\* held at the call, mutated or not
DerivedFromCall(c) ==
    LET pa == pop[parents'[c - (c % 2) + 1] + 1]
        pb == pop[parents'[c - (c % 2) + 2] + 1]
    IN \E r \in CrossoverOutcomes(evolver.Crossover, species, pa, pb) :
          /\ r.ok
          /\ \E m \in MaybeMutate(evolver, species, IF c % 2 = 0 THEN r.val.x ELSE r.val.y) :
                m.ok /\ m.val = children'[c + 1]

\* C27: Crossover and the mutation of the children write into no gene array
\* that existed when Evolve was called, so the parents and the rest of the
\* population hold the genes they held; the children's arrays are new and
\* pairwise different; each child is the crossover (mutated or not) of the
\* genes its parents had at the call; and only the replaced slots change.
C27_ChildrenApart ==
    [][EvolveStoreEnds =>
          /\ \A p \in 1..Len(heap) : heap'[p] = heap[p]
          /\ pc' = "done" =>
                /\ \A c \in 1..Len(childRefs') : childRefs'[c] > Len(heap)
                /\ Distinct(childRefs')
                /\ \A c \in 0..(Len(childRefs') - 1) : DerivedFromCall(c)
                /\ \A i \in 1..Len(pop) :
                      (i - 1) \notin Range(minIndexes') =>
                          (popRefs'[i] = popRefs[i] /\ pop'[i] = pop[i])]_vars

\* one chromosome was both parents, its slot was among those replaced, and a
\* child was mutated
C27_Witness ==
    /\ call = "Evolve" /\ pc = "done"
    /\ heap # <<>>
    /\ parents[1] = parents[2]
    /\ parents[1] \in Range(minIndexes)
    /\ "Mutate" \in Range(randLog)
    /\ Len(pop) = 3
    /\ \E c \in 1..2 : children[c] # heap[parents[1] + 1]

====
